---- MODULE Spec2Model ----
(***************************************************************************)
(* Alert relevance scoring and feedback training of the investor           *)
(* intelligence service: RelevanceModel (ml/relevance_model.py) and the    *)
(* feedback store with its engagement scorer                               *)
(* (services/alert_feedback_service.py).                                   *)
(*                                                                         *)
(* Numbers.  Python floats and ints are modelled as exact rationals        *)
(* [n |-> numerator, d |-> denominator > 0] in lowest terms; None in a     *)
(* numeric slot is the record NoneNum, None in a string slot the string    *)
(* NoneStr.  A dict is a function from key strings to values; a missing    *)
(* key is a key outside its DOMAIN, read through Get as dict.get reads it. *)
(* The input sets of the stateful specification are chosen so that the     *)
(* double arithmetic of the code takes the same branch as the exact        *)
(* arithmetic at every comparison.                                         *)
(***************************************************************************)
EXTENDS Integers, Sequences, FiniteSets, TLC

VARIABLES
    feedback_data,      \* RelevanceModel.feedback_data: sequence of <<features, label>>
    model_performance,  \* RelevanceModel.model_performance
    now,                \* the wall clock read by datetime.now()
    ret,                \* the outcome of the last call on the RelevanceModel
    pred_log,           \* every <<arguments, score, clock>> predict_relevance has produced
    p_in,               \* arguments of a predict_relevance call (pure-function run)
    p_out,              \* its result
    g_in,               \* argument of a _calculate_ground_truth call (pure-function run)
    g_out,              \* its result
    feedback_rows,      \* table alert_feedback: sequence of rows, in insertion order
    e_ret,              \* the outcome of the last call on the feedback store
    alerts,             \* table alerts: sequence of rows, in insertion order
    user_configs,       \* table user_configs: sequence of rows, in insertion order
    held_results,       \* the results of earlier calls that the caller still holds
    workers,            \* the position and locals of each worker that uses the store
    api                 \* the _make_api_call in progress and the HTTP attempts it made

vars == <<feedback_data, model_performance, now, ret, pred_log,
          p_in, p_out, g_in, g_out, feedback_rows, e_ret, alerts,
          user_configs, held_results, workers, api>>

model_vars == <<feedback_data, model_performance, ret, pred_log>>
predict_vars == <<p_in, p_out>>
truth_vars == <<g_in, g_out>>
store_vars == <<feedback_rows, e_ret, alerts>>
side_vars == <<user_configs, held_results, workers, api>>

(***************************************************************************)
(* Python values                                                           *)
(***************************************************************************)
NoneStr == "None"
NoneNum == [none |-> TRUE]
Idle == [idle |-> TRUE]
EmptyDict == [k \in {} |-> k]

Get(dict, key, default) == IF key \in DOMAIN dict THEN dict[key] ELSE default

Opt(key, present, value) == IF present THEN key :> value ELSE EmptyDict

Abs(i) == IF i < 0 THEN -i ELSE i

RECURSIVE Gcd(_, _)
Gcd(a, b) == IF b = 0 THEN a ELSE Gcd(b, a % b)

Rat(n, d) ==
    LET g == Gcd(Abs(n), Abs(d))
        s == IF d < 0 THEN -1 ELSE 1
    IN  [n |-> (s * n) \div g, d |-> (s * d) \div g]

Zero == Rat(0, 1)
One == Rat(1, 1)
RatAdd(x, y) == Rat(x.n * y.d + y.n * x.d, x.d * y.d)
RatSub(x, y) == Rat(x.n * y.d - y.n * x.d, x.d * y.d)
RatMul(x, y) == Rat(x.n * y.n, x.d * y.d)
RatDiv(x, y) == Rat(x.n * y.d, x.d * y.n)
RatAbs(x) == [n |-> Abs(x.n), d |-> x.d]
RatLE(x, y) == x.n * y.d <= y.n * x.d
RatLT(x, y) == x.n * y.d < y.n * x.d
RatMax(x, y) == IF RatLE(x, y) THEN y ELSE x
RatMin(x, y) == IF RatLE(x, y) THEN x ELSE y
IsNum(x) == "n" \in DOMAIN x

Raised(exception) == [raised |-> exception]
HasRaised(x) == "raised" \in DOMAIN x

\* Python's x / y
PyDiv(x, y) == IF y.n = 0 THEN Raised("ZeroDivisionError") ELSE RatDiv(x, y)

RECURSIVE RatSum(_)
RatSum(s) == IF s = <<>> THEN Zero ELSE RatAdd(Head(s), RatSum(Tail(s)))

RECURSIVE SeqsUpTo(_, _)
SeqsUpTo(S, n) ==
    IF n = 0 THEN {<<>>}
    ELSE LET shorter == SeqsUpTo(S, n - 1)
         IN  shorter \cup {Append(s, x) : s \in {t \in shorter : Len(t) = n - 1}, x \in S}

(***************************************************************************)
(* RelevanceModel.predict_relevance                                        *)
(***************************************************************************)
\* Mutation of BaseScore.
BaseScore_Fourth == Rat(1, 4)

BaseScore == Rat(1, 2)

\* Mutation of PriceAdjustment: the threshold comparison made strict.
PriceAdjustment_StrictThreshold(alert, user_preferences) ==
    LET change_percent == Get(alert, "change", Zero)
        min_change_pref == Get(user_preferences, "min_price_change_alert", Zero)
    IN  IF RatLT(min_change_pref, RatAbs(change_percent))
        THEN RatMul(Rat(1, 5), RatDiv(RatAbs(change_percent), Rat(5, 1)))
        ELSE Rat(-1, 10)

PriceAdjustment(alert, user_preferences) ==
    LET change_percent == Get(alert, "change", Zero)
        min_change_pref == Get(user_preferences, "min_price_change_alert", Zero)
    IN  IF RatLE(min_change_pref, RatAbs(change_percent))
        THEN RatMul(Rat(1, 5), RatDiv(RatAbs(change_percent), Rat(5, 1)))
        ELSE Rat(-1, 10)

\* Mutation of NewsAdjustment: a negative sentiment lowers the score.
NewsAdjustment_NegativeLowers(alert, portfolio_context) ==
    LET sentiment == Get(alert, "sentiment", "neutral")
        tone == IF sentiment = "positive" THEN Rat(15, 100)
                ELSE IF sentiment = "negative" THEN Rat(-15, 100)
                ELSE Zero
        held == IF Get(alert, "symbol", NoneStr)
                      \in Get(portfolio_context, "symbols_held", {})
                THEN Rat(1, 10) ELSE Zero
    IN  RatAdd(tone, held)

NewsAdjustment(alert, portfolio_context) ==
    LET sentiment == Get(alert, "sentiment", "neutral")
        tone == IF sentiment = "positive" THEN Rat(15, 100)
                ELSE IF sentiment = "negative" THEN Rat(15, 100)
                ELSE Zero
        held == IF Get(alert, "symbol", NoneStr)
                      \in Get(portfolio_context, "symbols_held", {})
                THEN Rat(1, 10) ELSE Zero
    IN  RatAdd(tone, held)

\* Mutation of EarningsAdjustment: the bonus given whether or not the symbol is held.
EarningsAdjustment_Always(alert, portfolio_context) == Rat(1, 5)

EarningsAdjustment(alert, portfolio_context) ==
    IF Get(alert, "symbol", NoneStr) \in Get(portfolio_context, "symbols_held", {})
    THEN Rat(1, 5) ELSE Zero

TypeAdjustment(alert, user_preferences, portfolio_context) ==
    IF alert["type"] \in {"price_gain", "price_drop"} THEN
        PriceAdjustment(alert, user_preferences)
    ELSE IF alert["type"] = "news_sentiment" THEN
        NewsAdjustment(alert, portfolio_context)
    ELSE IF alert["type"] = "earnings_report" THEN
        EarningsAdjustment(alert, portfolio_context)
    ELSE Zero

\* Mutation of RiskAdjustment: the bonus given to either profile on any price alert.
RiskAdjustment_AnyPriceAlert(alert, user_preferences) ==
    LET risk_profile == Get(user_preferences, "risk_profile", "moderate")
    IN  IF risk_profile \in {"conservative", "aggressive"}
           /\ alert["type"] \in {"price_gain", "price_drop"} THEN Rat(1, 10)
        ELSE Zero

RiskAdjustment(alert, user_preferences) ==
    LET risk_profile == Get(user_preferences, "risk_profile", "moderate")
    IN  IF risk_profile = "conservative" /\ alert["type"] = "price_drop" THEN Rat(1, 10)
        ELSE IF risk_profile = "aggressive" /\ alert["type"] = "price_gain" THEN Rat(1, 10)
        ELSE Zero

\* Mutation of HoldingAdjustment: a quantity of exactly 50 earns the bonus.
HoldingAdjustment_AtLeastFifty(alert, portfolio_context) ==
    LET quantities == Get(portfolio_context, "holding_quantities", EmptyDict)
    IN  IF Get(alert, "symbol", NoneStr) \in DOMAIN quantities
        THEN IF quantities[alert["symbol"]] >= 50 THEN Rat(5, 100) ELSE Zero
        ELSE Zero

HoldingAdjustment(alert, portfolio_context) ==
    LET quantities == Get(portfolio_context, "holding_quantities", EmptyDict)
    IN  IF Get(alert, "symbol", NoneStr) \in DOMAIN quantities
        THEN IF quantities[alert["symbol"]] > 50 THEN Rat(5, 100) ELSE Zero
        ELSE Zero

RawScore(alert, user_preferences, portfolio_context) ==
    RatAdd(RatAdd(RatAdd(BaseScore,
                         TypeAdjustment(alert, user_preferences, portfolio_context)),
                  RiskAdjustment(alert, user_preferences)),
           HoldingAdjustment(alert, portfolio_context))

Clamp01_NoUpperBound(score) == RatMax(Zero, score)

Clamp01(score) == RatMin(One, RatMax(Zero, score))

predict_relevance_Learned(alert, user_preferences, portfolio_context) ==
    Clamp01(RatAdd(RawScore(alert, user_preferences, portfolio_context),
                   IF feedback_data = <<>> THEN Zero ELSE Rat(1, 10)))

predict_relevance(alert, user_preferences, portfolio_context) ==
    Clamp01(RawScore(alert, user_preferences, portfolio_context))

(***************************************************************************)
(* RelevanceModel._calculate_ground_truth                                  *)
(***************************************************************************)
\* The (score, weight) of one feedback dict; skip for an unrecognized kind;
\* TypeError when (rating - 1) is evaluated on None.
RatingScore_OverFive(rating) == RatDiv(rating, Rat(5, 1))

\* Convert 1-5 rating to 0-1 scale
RatingScore(rating) == RatDiv(RatSub(rating, One), Rat(4, 1))

FeedbackScoreWeight(feedback) ==
    LET feedback_type == Get(feedback, "type", "")
    IN  IF feedback_type = "rating" THEN
            LET rating == Get(feedback, "rating", Rat(3, 1))
            IN  IF IsNum(rating)
                THEN [score |-> RatingScore(rating), weight |-> Rat(2, 1)]
                ELSE Raised("TypeError")
        ELSE IF feedback_type = "mark_relevant" THEN [score |-> One, weight |-> Rat(3, 2)]
        ELSE IF feedback_type = "mark_irrelevant" THEN [score |-> Zero, weight |-> Rat(3, 2)]
        ELSE IF feedback_type = "click" THEN [score |-> Rat(4, 5), weight |-> One]
        ELSE IF feedback_type = "view" THEN [score |-> Rat(1, 2), weight |-> Rat(1, 2)]
        ELSE IF feedback_type = "dismiss" THEN [score |-> Rat(1, 5), weight |-> One]
        ELSE [skip |-> TRUE]

\* The for loop of _calculate_ground_truth from the given totals on.
RECURSIVE GroundTruthLoop(_, _, _)
GroundTruthLoop(feedback_list, total_score, total_weight) ==
    IF feedback_list = <<>> THEN [total_score |-> total_score, total_weight |-> total_weight]
    ELSE LET sw == FeedbackScoreWeight(Head(feedback_list))
         IN  IF HasRaised(sw) THEN sw
             ELSE IF "skip" \in DOMAIN sw
                  THEN GroundTruthLoop(Tail(feedback_list), total_score, total_weight)
                  ELSE GroundTruthLoop(Tail(feedback_list),
                                       RatAdd(total_score, RatMul(sw.score, sw.weight)),
                                       RatAdd(total_weight, sw.weight))

ZeroWeight(total_weight) == total_weight = Zero

calculate_ground_truth(feedback_list) ==
    IF feedback_list = <<>> THEN NoneNum
    ELSE LET totals == GroundTruthLoop(feedback_list, Zero, Zero)
         IN  IF HasRaised(totals) THEN totals
             ELSE IF ZeroWeight(totals.total_weight) THEN NoneNum
             ELSE PyDiv(totals.total_score, totals.total_weight)

(***************************************************************************)
(* RelevanceModel._extract_features                                        *)
(***************************************************************************)
\* A message is the sequence of its characters.
UpperCase == <<"A", "B", "C", "D", "E", "F", "G", "H", "I", "J", "K", "L", "M", "N", "O", "P", "Q", "R", "S", "T", "U", "V", "W", "X", "Y", "Z">>
LowerCase == <<"a", "b", "c", "d", "e", "f", "g", "h", "i", "j", "k", "l", "m", "n", "o", "p", "q", "r", "s", "t", "u", "v", "w", "x", "y", "z">>

LowerOf == [i \in 1..Len(UpperCase) |-> LowerCase[i]]
UpperIndex == [c \in {UpperCase[i] : i \in 1..Len(UpperCase)} |->
                  CHOOSE i \in 1..Len(UpperCase) : UpperCase[i] = c]

lower_char(c) == IF c \in DOMAIN UpperIndex THEN LowerOf[UpperIndex[c]] ELSE c

\* str.lower()
lower(text) == [i \in 1..Len(text) |-> lower_char(text[i])]

\* word in text
contains(text, word) ==
    \E i \in 1..(Len(text) - Len(word) + 1) : SubSeq(text, i, i + Len(word) - 1) = word

\* Truth value of a string-or-None.
Truthy(string) == string # NoneStr /\ string # ""

Flag(condition) == IF condition THEN 1 ELSE 0

extract_features(alert_data) ==
    LET message == lower(Get(alert_data, "message", <<>>))
    IN  [alert_type |-> Get(alert_data, "alert_type", ""),
         symbol |-> Get(alert_data, "symbol", ""),
         has_symbol |-> Flag(Truthy(Get(alert_data, "symbol", NoneStr))),
         message_length |-> Len(Get(alert_data, "message", <<>>)),
         predicted_relevance |-> Get(alert_data, "predicted_relevance", Rat(1, 2)),
         contains_percent |-> Flag(contains(message, <<"%">>)),
         contains_price |-> Flag(\E word \in {<<"p", "r", "i", "c", "e">>, <<"s", "t", "o", "c", "k">>, <<"s", "h", "a", "r", "e">>} : contains(message, word)),
         contains_earnings |-> Flag(contains(message, <<"e", "a", "r", "n", "i", "n", "g", "s">>)),
         contains_news |-> Flag(contains(message, <<"n", "e", "w", "s">>)),
         contains_alert |-> Flag(contains(message, <<"a", "l", "e", "r", "t">>))]

(***************************************************************************)
(* RelevanceModel.train_with_feedback and what it calls                    *)
(***************************************************************************)
\* The loop over training_data from the given pairs on: the <<features,
\* label>> pairs of the records with a ground truth, in input order, or the
\* exception _calculate_ground_truth raised.
RECURSIVE TrainingPairs(_, _)
TrainingPairs(training_data, pairs) ==
    IF training_data = <<>> THEN [pairs |-> pairs]
    ELSE LET alert_data == Head(training_data)
             alert_features == extract_features(alert_data)
             ground_truth == calculate_ground_truth(Get(alert_data, "feedback", <<>>))
         IN  IF HasRaised(ground_truth) THEN ground_truth
             ELSE IF ground_truth # NoneNum
                  THEN TrainingPairs(Tail(training_data),
                                     Append(pairs, <<alert_features, ground_truth>>))
                  ELSE TrainingPairs(Tail(training_data), pairs)

\* _update_model_parameters: the new value of feedback_data (list(zip(features,
\* labels))).  _analyze_feedback_patterns only prints per-type averages of
\* non-empty groups.
update_model_parameters_Extend(pairs) == feedback_data \o pairs

update_model_parameters(pairs) == pairs

\* The mock alert, preferences and context of _calculate_performance_metrics.
MockAlert(feature) ==
    [type |-> Get(feature, "alert_type", ""), symbol |-> Get(feature, "symbol", ""),
     message |-> <<"m", "o", "c", "k", " ", "m", "e", "s", "s", "a", "g", "e">>]

\* Mutation of MockPreferences: no minimum price change.
MockPreferences_NoMinimum == [min_price_change_alert |-> Zero, risk_profile |-> "moderate"]

MockPreferences == [min_price_change_alert |-> One, risk_profile |-> "moderate"]

MockContext == [symbols_held |-> {}, holding_quantities |-> EmptyDict,
                portfolio_value |-> 10000]

\* pred of one feature set in the loop of _calculate_performance_metrics
MockPrediction(feature) ==
    predict_relevance(MockAlert(feature), MockPreferences, MockContext)

WithinTolerance_Strict(pred, label) == RatLT(RatAbs(RatSub(pred, label)), Rat(1, 5))

\* Consider prediction correct if within 0.2 of ground truth
WithinTolerance(pred, label) == RatLE(RatAbs(RatSub(pred, label)), Rat(1, 5))

RECURSIVE CorrectPredictions(_)
CorrectPredictions(pairs) ==
    IF pairs = <<>> THEN 0
    ELSE LET pred == MockPrediction(Head(pairs)[1])
         IN  (IF WithinTolerance(pred, Head(pairs)[2]) THEN 1 ELSE 0)
             + CorrectPredictions(Tail(pairs))

calculate_performance_metrics(pairs) ==
    IF pairs = <<>>
    THEN [accuracy |-> Zero, precision |-> Zero, recall |-> Zero, f1_score |-> Zero]
    ELSE LET accuracy == PyDiv(Rat(CorrectPredictions(pairs), 1), Rat(Len(pairs), 1))
         IN  [accuracy |-> accuracy, precision |-> accuracy, recall |-> accuracy,
              f1_score |-> accuracy]

(***************************************************************************)
(* RelevanceModel.get_feedback_insights                                    *)
(***************************************************************************)
Labels(pairs) == [i \in 1..Len(pairs) |-> pairs[i][2]]

InsightsAverage_FirstLabel(pairs) == pairs[1][2]

\* sum(label for _, label in self.feedback_data) / total_samples
InsightsAverage(pairs) == PyDiv(RatSum(Labels(pairs)), Rat(Len(pairs), 1))

\* The loop building alert_type_stats from the given stats on.
RECURSIVE TypeStatsLoop(_, _)
TypeStatsLoop(pairs, stats) ==
    IF pairs = <<>> THEN stats
    ELSE LET alert_type == Get(Head(pairs)[1], "alert_type", "unknown")
             seen == IF alert_type \in DOMAIN stats THEN stats
                     ELSE stats @@ (alert_type :> [count |-> 0, total_relevance |-> Zero])
         IN  TypeStatsLoop(Tail(pairs),
                 [seen EXCEPT ![alert_type] =
                     [count |-> @.count + 1,
                      total_relevance |-> RatAdd(@.total_relevance, Head(pairs)[2])]])

get_feedback_insights(pairs, performance) ==
    IF pairs = <<>> THEN [message |-> "No feedback data available"]
    ELSE LET stats == TypeStatsLoop(pairs, EmptyDict)
         IN  [total_samples |-> Len(pairs),
              average_relevance |-> InsightsAverage(pairs),
              alert_type_statistics |->
                  [t \in DOMAIN stats |->
                      [count |-> stats[t].count,
                       total_relevance |-> stats[t].total_relevance,
                       avg_relevance |-> PyDiv(stats[t].total_relevance,
                                               Rat(stats[t].count, 1))]],
              last_updated |-> performance.last_updated]

(***************************************************************************)
(* AlertFeedback and AlertFeedbackService                                  *)
(***************************************************************************)
\* Mutation of post_init: the range checks of rating and relevance score are
\* skipped.
post_init_NoRangeChecks(feedback) ==
    IF feedback.alert_id = 0 THEN Raised("ValueError")
    ELSE IF ~Truthy(feedback.user_id) THEN Raised("ValueError")
    ELSE IF feedback.feedback_type = NoneStr THEN Raised("ValueError")
    ELSE feedback

\* AlertFeedback.__post_init__: the feedback itself, or the ValueError raised.
\* An alert_id of 0, an empty or missing user_id and a missing feedback_type
\* are falsy; every member of FeedbackType is truthy.
post_init(feedback) ==
    IF feedback.alert_id = 0 THEN Raised("ValueError")
    ELSE IF ~Truthy(feedback.user_id) THEN Raised("ValueError")
    ELSE IF feedback.feedback_type = NoneStr THEN Raised("ValueError")
    ELSE IF IsNum(feedback.rating)
            /\ ~(RatLE(One, feedback.rating) /\ RatLE(feedback.rating, Rat(5, 1)))
         THEN Raised("ValueError")
    ELSE IF IsNum(Get(feedback, "relevance_score", NoneNum))
            /\ ~(RatLE(Zero, feedback.relevance_score)
                 /\ RatLE(feedback.relevance_score, One))
         THEN Raised("ValueError")
    ELSE feedback

\* INSERT INTO alert_feedback: the AUTOINCREMENT id is one more than the last.
lastrowid(rows) == Len(rows) + 1

\* Mutation of record_feedback: the new row takes the place of the latest one.
record_feedback_ReplaceLatest(rows, feedback) ==
    IF rows = <<>> THEN <<[feedback EXCEPT !.id = 1]>>
    ELSE SubSeq(rows, 1, Len(rows) - 1) \o <<[feedback EXCEPT !.id = Len(rows)]>>

record_feedback(rows, feedback) ==
    Append(rows, [feedback EXCEPT !.id = lastrowid(rows)])

\* ORDER BY timestamp, rows of one timestamp in insertion order.
RECURSIVE InsertByTimestamp(_, _)
InsertByTimestamp(sorted, row) ==
    IF sorted = <<>> THEN <<row>>
    ELSE IF row.timestamp < Head(sorted).timestamp THEN <<row>> \o sorted
    ELSE <<Head(sorted)>> \o InsertByTimestamp(Tail(sorted), row)

RECURSIVE OrderByTimestamp(_)
OrderByTimestamp(rows) ==
    IF rows = <<>> THEN <<>>
    ELSE InsertByTimestamp(OrderByTimestamp(SubSeq(rows, 1, Len(rows) - 1)), rows[Len(rows)])

get_feedback_for_alert(rows, alert_id) ==
    OrderByTimestamp(SelectSeq(rows, LAMBDA row : row.alert_id = alert_id))

\* One pass of the scoring loop: what the event adds to score.
EngagementContribution(feedback) ==
    IF feedback.feedback_type = "view" THEN Rat(1, 10)
    ELSE IF feedback.feedback_type = "click" THEN Rat(3, 10)
    ELSE IF feedback.feedback_type = "mark_relevant" THEN Rat(1, 2)
    ELSE IF feedback.feedback_type = "rating" THEN
        IF IsNum(feedback.rating) /\ feedback.rating # Zero
        THEN RatMul(RatDiv(feedback.rating, Rat(5, 1)), Rat(2, 5))
        ELSE Zero
    ELSE IF feedback.feedback_type = "mark_irrelevant" THEN Rat(-1, 5)
    ELSE IF feedback.feedback_type = "dismiss" THEN Rat(-1, 10)
    ELSE Zero

RECURSIVE EngagementLoop(_, _)
EngagementLoop(feedback_list, score) ==
    IF feedback_list = <<>> THEN score
    ELSE EngagementLoop(Tail(feedback_list),
                        RatAdd(score, EngagementContribution(Head(feedback_list))))

IntMax(a, b) == IF a >= b THEN a ELSE b

NormalizedScore_NoDivision(score, total_interactions) == score

NormalizedScore(score, total_interactions) ==
    PyDiv(score, Rat(IntMax(total_interactions, 1), 1))

EngagementClamp_NoLowerBound(normalized_score) == RatMin(One, normalized_score)

EngagementClamp(normalized_score) == RatMax(Zero, RatMin(One, normalized_score))

calculate_alert_engagement_score(rows, alert_id) ==
    LET feedback_list == get_feedback_for_alert(rows, alert_id)
    IN  IF feedback_list = <<>> THEN Zero
        ELSE EngagementClamp(NormalizedScore(EngagementLoop(feedback_list, Zero),
                                             Len(feedback_list)))

(***************************************************************************)
(* AlertService and the queries of AlertFeedbackService                    *)
(***************************************************************************)
\* INSERT INTO alerts: the AUTOINCREMENT id is one more than the last.
create_alert(table, alert) == Append(table, [alert EXCEPT !.id = Len(table) + 1])

\* ORDER BY timestamp: every ascending order of the rows; SQL leaves the order
\* of rows of one timestamp open.
TimestampOrders(rows) ==
    LET n == Len(rows)
        ascending == {f \in [1..n -> 1..n] :
                         /\ \A i, j \in 1..n : i # j => f[i] # f[j]
                         /\ \A i \in 1..(n - 1) :
                               rows[f[i]].timestamp <= rows[f[i + 1]].timestamp}
    IN  {[i \in 1..n |-> rows[f[i]]] : f \in ascending}

Reverse(seq) == [i \in 1..Len(seq) |-> seq[Len(seq) + 1 - i]]

\* SELECT ... WHERE user_id = ? AND timestamp >= ? ORDER BY timestamp DESC:
\* the possible results.
get_feedback_for_user(rows, user_id, cutoff_date) ==
    {Reverse(ordered) :
        ordered \in TimestampOrders(
            SelectSeq(rows, LAMBDA row : row.user_id = user_id /\ row.timestamp >= cutoff_date))}

\* A row of alerts a LEFT JOIN alert_feedback af: the af columns are all None
\* when the alert has no feedback.
JoinRow(alert, feedback) == [alert |-> alert, feedback |-> feedback]

\* The join rows of one alert, ORDER BY af.timestamp: the possible orders.
JoinRowsOf(alert, rows) ==
    LET own == SelectSeq(rows, LAMBDA row : row.alert_id = alert.id)
    IN  IF own = <<>> THEN {<<JoinRow(alert, NoneNum)>>}
        ELSE {[i \in 1..Len(ordered) |-> JoinRow(alert, ordered[i])] :
                 ordered \in TimestampOrders(own)}

\* WHERE a.created_at >= ? ORDER BY a.id, af.timestamp: the possible results
\* of the query over the alerts from the given one on.
RECURSIVE TrainingQuery(_, _, _)
TrainingQuery(table, rows, cutoff_date) ==
    IF table = <<>> THEN {<<>>}
    ELSE LET rest == TrainingQuery(Tail(table), rows, cutoff_date)
         IN  IF Head(table).created_at >= cutoff_date
             THEN {first \o others : first \in JoinRowsOf(Head(table), rows), others \in rest}
             ELSE rest

\* current_alert["feedback"] = current_feedback; training_data.append(current_alert)
AppendCurrent(training_data, current_alert, current_feedback) ==
    Append(training_data, current_alert @@ [feedback |-> current_feedback])

\* Mutation of GroupByAlert: the last alert is never added.
RECURSIVE GroupByAlert_DropLast(_, _, _, _)
GroupByAlert_DropLast(rows, training_data, current_alert, current_feedback) ==
    IF rows = <<>> THEN training_data
    ELSE LET row == Head(rows)
             starts == current_alert = NoneNum \/ current_alert.alert_id # row.alert.id
             flushed == IF starts /\ current_alert # NoneNum
                        THEN AppendCurrent(training_data, current_alert, current_feedback)
                        ELSE training_data
             alert == IF starts
                      THEN [alert_id |-> row.alert.id, alert_type |-> row.alert.alert_type,
                            symbol |-> row.alert.symbol, message |-> row.alert.message,
                            predicted_relevance |-> row.alert.relevance_score]
                      ELSE current_alert
             kept == IF starts THEN <<>> ELSE current_feedback
             feedback == IF row.feedback # NoneNum /\ row.feedback.feedback_type # ""
                         THEN Append(kept, [type |-> row.feedback.feedback_type,
                                            rating |-> row.feedback.rating,
                                            timestamp |-> row.feedback.timestamp])
                         ELSE kept
         IN  GroupByAlert_DropLast(Tail(rows), flushed, alert, feedback)

\* The grouping loop of get_relevance_training_data and the step after it that
\* adds the last alert.
RECURSIVE GroupByAlert(_, _, _, _)
GroupByAlert(rows, training_data, current_alert, current_feedback) ==
    IF rows = <<>> THEN
        IF current_alert # NoneNum
        THEN AppendCurrent(training_data, current_alert, current_feedback)
        ELSE training_data
    ELSE LET row == Head(rows)
             starts == current_alert = NoneNum \/ current_alert.alert_id # row.alert.id
             flushed == IF starts /\ current_alert # NoneNum
                        THEN AppendCurrent(training_data, current_alert, current_feedback)
                        ELSE training_data
             alert == IF starts
                      THEN [alert_id |-> row.alert.id, alert_type |-> row.alert.alert_type,
                            symbol |-> row.alert.symbol, message |-> row.alert.message,
                            predicted_relevance |-> row.alert.relevance_score]
                      ELSE current_alert
             kept == IF starts THEN <<>> ELSE current_feedback
             feedback == IF row.feedback # NoneNum /\ row.feedback.feedback_type # ""
                         THEN Append(kept, [type |-> row.feedback.feedback_type,
                                            rating |-> row.feedback.rating,
                                            timestamp |-> row.feedback.timestamp])
                         ELSE kept
         IN  GroupByAlert(Tail(rows), flushed, alert, feedback)

\* AlertFeedbackService.get_relevance_training_data: the possible results.
get_relevance_training_data(table, rows, cutoff_date) ==
    {GroupByAlert(joined, <<>>, NoneNum, <<>>) :
        joined \in TrainingQuery(table, rows, cutoff_date)}

(***************************************************************************)
(* Bounded inputs                                                          *)
(***************************************************************************)
MaxChange == 500
MaxFeedbackLen == 3

AlertTypes == {"price_gain", "price_drop", "news_sentiment", "earnings_report", "dividend"}
Symbols == {"AAPL", "MSFT"}
Changes == {Rat(c, 1) : c \in {-MaxChange, -2, 0, 1, 5, 10, MaxChange}}
Sentiments == {"positive", "negative", "neutral"}
RiskProfiles == {"conservative", "moderate", "aggressive"}
FeedbackKinds == {"view", "click", "dismiss", "mark_relevant", "mark_irrelevant", "rating"}
Ratings == {Rat(r, 1) : r \in 1..5}

\* Alert dicts as the monitoring passes and the demo build them; every key but
\* type is optional.
PredictAlerts ==
    {[type |-> t] @@ Opt("change", hc, c) @@ Opt("sentiment", hs, s) @@ Opt("symbol", hy, y) :
        t \in AlertTypes,
        <<hc, c>> \in ({<<FALSE, Zero>>} \cup ({TRUE} \X Changes)),
        <<hs, s>> \in ({<<FALSE, "neutral">>} \cup ({TRUE} \X Sentiments)),
        <<hy, y>> \in {<<FALSE, NoneStr>>, <<TRUE, "AAPL">>, <<TRUE, "MSFT">>}}

PredictPreferences ==
    {Opt("min_price_change_alert", hm, m) @@ Opt("risk_profile", hr, r) :
        <<hm, m>> \in {<<FALSE, Zero>>, <<TRUE, One>>, <<TRUE, Rat(5, 1)>>},
        <<hr, r>> \in ({<<FALSE, "moderate">>} \cup ({TRUE} \X RiskProfiles))}

PredictContexts ==
    {Opt("symbols_held", hh, h) @@ Opt("holding_quantities", hq, q) :
        <<hh, h>> \in {<<FALSE, {}>>, <<TRUE, {}>>, <<TRUE, {"AAPL"}>>},
        <<hq, q>> \in {<<FALSE, EmptyDict>>, <<TRUE, EmptyDict>>,
                       <<TRUE, "AAPL" :> 50>>, <<TRUE, "AAPL" :> 51>>}}

\* Feedback dicts: the rows get_relevance_training_data builds carry the rating
\* column (None when the event has none); a caller's dict may lack the key, the
\* type, or name a kind the aggregator does not know.
FeedbackDicts ==
    {[type |-> "rating", rating |-> r] : r \in Ratings \cup {NoneNum}}
    \cup {[type |-> "rating"], EmptyDict}
    \cup {[type |-> k, rating |-> NoneNum] : k \in (FeedbackKinds \ {"rating"}) \cup {"share"}}

FeedbackLists == SeqsUpTo(FeedbackDicts, MaxFeedbackLen)

(***************************************************************************)
(* Runs of the pure functions                                              *)
(***************************************************************************)
ModelIdle ==
    /\ feedback_data = <<>>
    /\ model_performance = [accuracy |-> Zero, precision |-> Zero, recall |-> Zero,
                            f1_score |-> Zero, last_updated |-> NoneNum]
    /\ ret = Idle
    /\ pred_log = {}

ClockIdle == now = 1

PredictIdle == p_in = Idle /\ p_out = Idle
TruthIdle == g_in = <<>> /\ g_out = Idle
StoreIdle == feedback_rows = <<>> /\ e_ret = Idle /\ alerts = <<>>
SideIdle == user_configs = <<>> /\ held_results = <<>> /\ workers = Idle /\ api = Idle

InitPredict ==
    /\ p_in \in [alert : PredictAlerts, user_preferences : PredictPreferences,
                 portfolio_context : PredictContexts]
    /\ p_out = Idle
    /\ ModelIdle /\ TruthIdle /\ StoreIdle /\ ClockIdle /\ SideIdle

Predict ==
    /\ p_out = Idle
    /\ p_out' = predict_relevance(p_in.alert, p_in.user_preferences, p_in.portfolio_context)
    /\ UNCHANGED <<p_in, now, model_vars, truth_vars, store_vars, side_vars>>

NextPredict == Predict

SpecPredict == InitPredict /\ [][NextPredict]_vars

InitTruth ==
    /\ g_in \in FeedbackLists
    /\ g_out = Idle
    /\ ModelIdle /\ PredictIdle /\ StoreIdle /\ ClockIdle /\ SideIdle

CalculateGroundTruth ==
    /\ g_out = Idle
    /\ g_out' = calculate_ground_truth(g_in)
    /\ UNCHANGED <<g_in, now, model_vars, predict_vars, store_vars, side_vars>>

NextTruth == CalculateGroundTruth

SpecTruth == InitTruth /\ [][NextTruth]_vars

(***************************************************************************)
(* The feedback store                                                      *)
(***************************************************************************)
MaxRows == 3

\* Constructor arguments of an AlertFeedback.  Alert 1 receives every kind, with
\* every rating the constructor can be handed (6 is out of range); alert 2
\* receives the events that a query about alert 1 has to leave out.  An
\* alert_id of 0 and an empty user_id are the falsy values __post_init__ rejects.
StoreRatings == Ratings \cup {NoneNum, Rat(6, 1)}

StoreInputs ==
    {[alert_id |-> 1, user_id |-> "user1", feedback_type |-> "rating", rating |-> r] :
        r \in StoreRatings}
    \cup {[alert_id |-> 1, user_id |-> "user1", feedback_type |-> k, rating |-> NoneNum] :
        k \in FeedbackKinds \ {"rating"}}
    \cup {[alert_id |-> 1, user_id |-> "user1", feedback_type |-> "view", rating |-> Rat(5, 1)],
          [alert_id |-> 2, user_id |-> "user2", feedback_type |-> "mark_relevant",
           rating |-> NoneNum],
          [alert_id |-> 2, user_id |-> "user2", feedback_type |-> "rating",
           rating |-> Rat(5, 1)],
          [alert_id |-> 0, user_id |-> "user1", feedback_type |-> "click", rating |-> NoneNum],
          [alert_id |-> 1, user_id |-> "", feedback_type |-> "click", rating |-> NoneNum]}

AlertIds == {1, 2}

InitStore ==
    /\ feedback_rows = <<>>
    /\ e_ret = Idle
    /\ alerts = <<>>
    /\ ModelIdle /\ PredictIdle /\ TruthIdle /\ ClockIdle /\ SideIdle

\* AlertFeedback(...) followed by record_feedback: the record_alert_view,
\* record_alert_click, record_alert_dismiss, record_relevance_rating and
\* record_relevance_mark wrappers are instances of it.
RecordFeedback(alert_id, user_id, feedback_type, rating) ==
    LET feedback == post_init([id |-> 0, alert_id |-> alert_id, user_id |-> user_id,
                               feedback_type |-> feedback_type, timestamp |-> now,
                               rating |-> rating])
    IN  /\ Len(feedback_rows) < MaxRows
        /\ IF HasRaised(feedback)
           THEN /\ e_ret' = [op |-> "record_feedback", result |-> feedback]
                /\ UNCHANGED feedback_rows
           ELSE /\ feedback_rows' = record_feedback(feedback_rows, feedback)
                /\ e_ret' = [op |-> "record_feedback",
                             result |-> feedback_rows'[Len(feedback_rows')]]
        /\ UNCHANGED <<alerts, now, model_vars, predict_vars, truth_vars, side_vars>>

CalculateAlertEngagementScore(alert_id) ==
    /\ e_ret' = [op |-> "calculate_alert_engagement_score", alert_id |-> alert_id,
                 result |-> calculate_alert_engagement_score(feedback_rows, alert_id)]
    /\ UNCHANGED <<feedback_rows, alerts, now, model_vars, predict_vars, truth_vars, side_vars>>

NextStore ==
    \/ \E in \in StoreInputs :
          RecordFeedback(in.alert_id, in.user_id, in.feedback_type, in.rating)
    \/ \E alert_id \in AlertIds : CalculateAlertEngagementScore(alert_id)

SpecStore == InitStore /\ [][NextStore]_vars

(***************************************************************************)
(* The RelevanceModel object                                               *)
(***************************************************************************)
MaxRecords == 2
MaxClock == 3

\* Training records in the shape get_relevance_training_data produces: two
\* graded price alerts (one off the prediction by more than the tolerance, one
\* exactly at it), a graded news alert whose list also holds an unrecognized
\* kind, an alert without feedback, and one whose rating event carries no
\* rating.
TrainingRecords ==
    {[alert_id |-> 1, alert_type |-> "price_gain", symbol |-> "AAPL",
      message |-> <<"S", "t", "o", "c", "k", " ", "+", "5", "%">>, predicted_relevance |-> Rat(7, 10),
      feedback |-> <<[type |-> "rating", rating |-> Rat(5, 1)],
                     [type |-> "click", rating |-> NoneNum]>>],
     [alert_id |-> 2, alert_type |-> "price_gain", symbol |-> "AAPL",
      message |-> <<"S", "t", "o", "c", "k", " ", "+", "5", "%">>, predicted_relevance |-> Rat(7, 10),
      feedback |-> <<[type |-> "dismiss", rating |-> NoneNum]>>],
     [alert_id |-> 3, alert_type |-> "news_sentiment", symbol |-> "MSFT",
      message |-> <<"N", "e", "w", "s">>, predicted_relevance |-> NoneNum,
      feedback |-> <<[type |-> "share", rating |-> NoneNum],
                     [type |-> "view", rating |-> NoneNum]>>],
     [alert_id |-> 4, alert_type |-> "earnings_report", symbol |-> NoneStr,
      message |-> <<"E", "A", "R", "N", "I", "N", "G", "S">>, predicted_relevance |-> Rat(1, 2),
      feedback |-> <<>>],
     [alert_id |-> 5, alert_type |-> "price_drop", symbol |-> "MSFT",
      message |-> <<"A", "l", "e", "r", "t">>, predicted_relevance |-> Rat(2, 5),
      feedback |-> <<[type |-> "rating", rating |-> NoneNum]>>]}

TrainingInputs == SeqsUpTo(TrainingRecords, MaxRecords)

\* The outcome of the loop of train_with_feedback on each input, tabulated.
TrainingLoop == [training_data \in TrainingInputs |-> TrainingPairs(training_data, <<>>)]

\* The trainings scoring is interleaved with: one of each outcome.
PurityTrainingInputs ==
    {td \in TrainingInputs :
        \/ Len(td) = 0
        \/ Len(td) = 1 /\ td[1].alert_id \in {2, 3, 4, 5}}

\* Arguments of the predict_relevance calls made between trainings.
ModelPredictInputs ==
    {[alert |-> [type |-> "price_gain", symbol |-> "AAPL", change |-> Rat(5, 2)],
      user_preferences |-> [min_price_change_alert |-> One, risk_profile |-> "aggressive"],
      portfolio_context |-> [symbols_held |-> {"AAPL"},
                             holding_quantities |-> ("AAPL" :> 100)]],
     [alert |-> [type |-> "news_sentiment", symbol |-> "MSFT", sentiment |-> "negative"],
      user_preferences |-> EmptyDict,
      portfolio_context |-> EmptyDict],
     [alert |-> [type |-> "dividend"],
      user_preferences |-> [risk_profile |-> "conservative"],
      portfolio_context |-> [symbols_held |-> {}]]}

Init ==
    /\ ModelIdle /\ ClockIdle /\ SideIdle
    /\ PredictIdle /\ TruthIdle /\ StoreIdle

\* train_with_feedback(training_data).  A successful call reads the clock,
\* which has advanced since the last reading.
\* train_with_feedback from the outcome of its loop on: the three returns
\* and the exception that leaves the loop.
Train(training_data, loop) ==
    LET pairs == loop.pairs
        call == [op |-> "train_with_feedback", training_data |-> training_data]
    IN  IF training_data = <<>> THEN
           /\ ret' = call @@ [status |-> "no_data", performance |-> model_performance]
           /\ UNCHANGED <<feedback_data, model_performance, now>>
        ELSE IF HasRaised(loop) THEN
           /\ ret' = call @@ loop
           /\ UNCHANGED <<feedback_data, model_performance, now>>
        ELSE IF pairs = <<>> THEN
           /\ ret' = call @@ [status |-> "no_valid_data", performance |-> model_performance]
           /\ UNCHANGED <<feedback_data, model_performance, now>>
        ELSE
           /\ now < MaxClock
           /\ now' = now + 1
           /\ feedback_data' = update_model_parameters(pairs)
           /\ model_performance' =
                 calculate_performance_metrics(pairs) @@ [last_updated |-> Rat(now', 1)]
           /\ ret' = call @@ [status |-> "success", performance |-> model_performance',
                              training_samples |-> Len(pairs)]

TrainWithFeedback(training_data) ==
    /\ Train(training_data, TrainingLoop[training_data])
    /\ UNCHANGED <<pred_log, predict_vars, truth_vars, store_vars, side_vars>>

PredictRelevance(alert, user_preferences, portfolio_context) ==
    LET arguments == [alert |-> alert, user_preferences |-> user_preferences,
                      portfolio_context |-> portfolio_context]
        score == predict_relevance(alert, user_preferences, portfolio_context)
    IN  /\ ret' = [op |-> "predict_relevance", arguments |-> arguments, result |-> score]
        /\ pred_log' = pred_log \cup {<<arguments, score, now>>}
        /\ UNCHANGED <<feedback_data, model_performance, now,
                       predict_vars, truth_vars, store_vars, side_vars>>

GetModelPerformance ==
    /\ ret' = [op |-> "get_model_performance", result |-> model_performance]
    /\ UNCHANGED <<feedback_data, model_performance, now, pred_log,
                   predict_vars, truth_vars, store_vars, side_vars>>

GetFeedbackInsights ==
    /\ ret' = [op |-> "get_feedback_insights",
               result |-> get_feedback_insights(feedback_data, model_performance)]
    /\ UNCHANGED <<feedback_data, model_performance, now, pred_log,
                   predict_vars, truth_vars, store_vars, side_vars>>

\* Training and reporting.
Next ==
    \/ \E training_data \in TrainingInputs : TrainWithFeedback(training_data)
    \/ GetModelPerformance
    \/ GetFeedbackInsights

Spec == Init /\ [][Next]_vars

\* Scoring interleaved with training.
NextPurity ==
    \/ \E training_data \in PurityTrainingInputs : TrainWithFeedback(training_data)
    \/ \E in \in ModelPredictInputs :
          PredictRelevance(in.alert, in.user_preferences, in.portfolio_context)

SpecPurity == Init /\ [][NextPurity]_vars

(***************************************************************************)
(* The feedback log behind AlertService (SpecLog)                          *)
(***************************************************************************)
MaxAlerts == 2
MaxLogRows == 2

\* Alert objects handed to create_alert.  The clock stands at 1: the first was
\* created now, the second a day ago.
LogAlerts ==
    {[id |-> 0, alert_type |-> "price_gain", symbol |-> "AAPL",
      message |-> <<"u", "p", " ", "5", "%">>, created_at |-> 1,
      relevance_score |-> Rat(7, 10)],
     [id |-> 0, alert_type |-> "news_sentiment", symbol |-> NoneStr,
      message |-> <<"N", "e", "w", "s">>, created_at |-> 0, relevance_score |-> NoneNum]}

\* AlertFeedback objects handed to record_feedback, with the timestamp the
\* caller gave them: one event of alert 1 lies after the clock and one before
\* it, so recording order and timestamp order can differ, and one event names
\* an alert beyond the last one that can exist.
LogFeedback ==
    {[id |-> 0, alert_id |-> 1, user_id |-> "user1", feedback_type |-> "click",
      timestamp |-> 2, rating |-> NoneNum],
     [id |-> 0, alert_id |-> 1, user_id |-> "user2", feedback_type |-> "rating",
      timestamp |-> 0, rating |-> Rat(5, 1)],
     [id |-> 0, alert_id |-> 2, user_id |-> "user2", feedback_type |-> "mark_irrelevant",
      timestamp |-> 0, rating |-> NoneNum],
     [id |-> 0, alert_id |-> MaxAlerts + 1, user_id |-> "user1",
      feedback_type |-> "mark_relevant", timestamp |-> 1, rating |-> NoneNum]}

TrackKinds == {"view", "click", "dismiss"}
TrackAlertIds == {0, 1}
LogAlertIds == 1..(MaxAlerts + 1)
LogUsers == {"user1", "user2"}
DaysBack == {0, 1}

InitLog ==
    /\ feedback_rows = <<>>
    /\ e_ret = Idle
    /\ alerts = <<>>
    /\ ModelIdle /\ PredictIdle /\ TruthIdle /\ ClockIdle /\ SideIdle

\* AlertService.create_alert
CreateAlert(alert) ==
    /\ Len(alerts) < MaxAlerts
    /\ alerts' = create_alert(alerts, alert)
    /\ e_ret' = [op |-> "create_alert", raised |-> NoneStr, result |-> alerts'[Len(alerts')]]
    /\ UNCHANGED <<feedback_rows, now, model_vars, predict_vars, truth_vars, side_vars>>

\* AlertFeedbackService.record_feedback on a constructed AlertFeedback; fails
\* when sqlite3 raises before the commit.
RecordFeedbackAt(feedback, fails) ==
    /\ Len(feedback_rows) < MaxLogRows
    /\ IF fails
       THEN /\ e_ret' = [op |-> "record_feedback", raised |-> "OperationalError",
                         argument |-> feedback, result |-> NoneNum]
            /\ UNCHANGED feedback_rows
       ELSE /\ feedback_rows' = record_feedback(feedback_rows, feedback)
            /\ e_ret' = [op |-> "record_feedback", raised |-> NoneStr,
                         argument |-> feedback,
                         result |-> feedback_rows'[Len(feedback_rows')]]
    /\ UNCHANGED <<alerts, now, model_vars, predict_vars, truth_vars, side_vars>>

IsTrack(r) == Get(r, "op", "") = "track_alert"

\* Mutation of track_alert: the exception reaches the caller.
track_alert_Propagates(rows, feedback, fails) ==
    LET constructed == post_init(feedback)
    IN  IF HasRaised(constructed)
        THEN [rows |-> rows, raised |-> constructed.raised, printed |-> NoneStr]
        ELSE IF fails
        THEN [rows |-> rows, raised |-> "OperationalError", printed |-> NoneStr]
        ELSE [rows |-> record_feedback(rows, constructed), raised |-> NoneStr,
              printed |-> NoneStr]

\* The body of track_alert_view, track_alert_click and track_alert_dismiss:
\* try the record_alert_* call, print the exception it raises.
track_alert(rows, feedback, fails) ==
    LET constructed == post_init(feedback)
    IN  IF HasRaised(constructed)
        THEN [rows |-> rows, raised |-> NoneStr, printed |-> constructed.raised]
        ELSE IF fails
        THEN [rows |-> rows, raised |-> NoneStr, printed |-> "OperationalError"]
        ELSE [rows |-> record_feedback(rows, constructed), raised |-> NoneStr,
              printed |-> NoneStr]

\* AlertService.track_alert_view / track_alert_click / track_alert_dismiss.
\* after_failure remembers whether the call before this one was a tracking
\* call that printed an exception.
TrackAlert(kind, alert_id, user_id, fails) ==
    LET outcome == track_alert(feedback_rows,
                               [id |-> 0, alert_id |-> alert_id, user_id |-> user_id,
                                feedback_type |-> kind, timestamp |-> now,
                                rating |-> NoneNum],
                               fails)
    IN  /\ Len(feedback_rows) < MaxLogRows
        /\ feedback_rows' = outcome.rows
        /\ e_ret' = [op |-> "track_alert", kind |-> kind, alert_id |-> alert_id,
                     raised |-> outcome.raised, printed |-> outcome.printed,
                     result |-> NoneNum,
                     after_failure |-> (IsTrack(e_ret) /\ e_ret.printed # NoneStr)]
        /\ UNCHANGED <<alerts, now, model_vars, predict_vars, truth_vars, side_vars>>

\* AlertFeedbackService.get_feedback_for_alert
GetFeedbackForAlert(alert_id, fails) ==
    /\ IF fails
       THEN e_ret' = [op |-> "get_feedback_for_alert", raised |-> "OperationalError",
                      result |-> NoneNum]
       ELSE \E ordered \in TimestampOrders(
                    SelectSeq(feedback_rows, LAMBDA row : row.alert_id = alert_id)) :
               e_ret' = [op |-> "get_feedback_for_alert", raised |-> NoneStr,
                         alert_id |-> alert_id, result |-> ordered]
    /\ UNCHANGED <<feedback_rows, alerts, now, model_vars, predict_vars, truth_vars, side_vars>>

\* AlertFeedbackService.get_feedback_for_user
GetFeedbackForUser(user_id, days_back, fails) ==
    /\ IF fails
       THEN e_ret' = [op |-> "get_feedback_for_user", raised |-> "OperationalError",
                      result |-> NoneNum]
       ELSE \E found \in get_feedback_for_user(feedback_rows, user_id, now - days_back) :
               e_ret' = [op |-> "get_feedback_for_user", raised |-> NoneStr,
                         user_id |-> user_id, days_back |-> days_back, result |-> found]
    /\ UNCHANGED <<feedback_rows, alerts, now, model_vars, predict_vars, truth_vars, side_vars>>

\* AlertFeedbackService.get_relevance_training_data
GetRelevanceTrainingData(days_back, fails) ==
    /\ IF fails
       THEN e_ret' = [op |-> "get_relevance_training_data", raised |-> "OperationalError",
                      result |-> NoneNum]
       ELSE \E training_data \in
                    get_relevance_training_data(alerts, feedback_rows, now - days_back) :
               e_ret' = [op |-> "get_relevance_training_data", raised |-> NoneStr,
                         days_back |-> days_back, result |-> training_data]
    /\ UNCHANGED <<feedback_rows, alerts, now, model_vars, predict_vars, truth_vars, side_vars>>

\* AlertService.get_relevance_training_data: the results it can return; an
\* exception of the feedback service is printed and [] returned in its place.
service_get_relevance_training_data(table, rows, cutoff_date, fails) ==
    IF fails THEN {<<>>} ELSE get_relevance_training_data(table, rows, cutoff_date)

\* AlertService.get_relevance_training_data.  failed remembers whether the
\* store failed underneath.
ServiceGetRelevanceTrainingData(days_back, fails) ==
    /\ \E training_data \in
              service_get_relevance_training_data(alerts, feedback_rows,
                                                  now - days_back, fails) :
          e_ret' = [op |-> "AlertService.get_relevance_training_data", raised |-> NoneStr,
                    days_back |-> days_back, failed |-> fails, result |-> training_data]
    /\ UNCHANGED <<feedback_rows, alerts, now, model_vars, predict_vars, truth_vars, side_vars>>

DemoDaysBack == 90

\* train_model_with_feedback of the feedback demo: fetch the training data
\* through the AlertService, then train the model on what came back.
TrainModelWithFeedback(fails) ==
    /\ \E training_data \in
              service_get_relevance_training_data(alerts, feedback_rows,
                                                  now - DemoDaysBack, fails) :
          /\ Train(training_data, TrainingPairs(training_data, <<>>))
          /\ e_ret' = [op |-> "train_model_with_feedback", raised |-> NoneStr,
                       failed |-> fails, result |-> training_data]
    /\ UNCHANGED <<feedback_rows, alerts, pred_log, predict_vars, truth_vars, side_vars>>

NextLog ==
    \/ \E alert \in LogAlerts : CreateAlert(alert)
    \/ \E feedback \in LogFeedback, fails \in BOOLEAN : RecordFeedbackAt(feedback, fails)
    \/ \E kind \in TrackKinds, alert_id \in TrackAlertIds, fails \in BOOLEAN :
          TrackAlert(kind, alert_id, "user1", fails)
    \/ \E alert_id \in LogAlertIds, fails \in BOOLEAN : GetFeedbackForAlert(alert_id, fails)
    \/ \E user_id \in LogUsers, days_back \in DaysBack, fails \in BOOLEAN :
          GetFeedbackForUser(user_id, days_back, fails)
    \/ \E days_back \in DaysBack, fails \in BOOLEAN :
          GetRelevanceTrainingData(days_back, fails)
    \/ \E alert_id \in LogAlertIds : CalculateAlertEngagementScore(alert_id)

SpecLog == InitLog /\ [][NextLog]_vars

\* The retrain of the demo over the same store.
NextRetrain ==
    \/ \E alert \in LogAlerts : CreateAlert(alert)
    \/ \E kind \in TrackKinds, alert_id \in TrackAlertIds, fails \in BOOLEAN :
          TrackAlert(kind, alert_id, "user1", fails)
    \/ \E days_back \in DaysBack, fails \in BOOLEAN :
          GetRelevanceTrainingData(days_back, fails)
    \/ \E days_back \in DaysBack, fails \in BOOLEAN :
          ServiceGetRelevanceTrainingData(days_back, fails)
    \/ \E fails \in BOOLEAN : TrainModelWithFeedback(fails)

SpecRetrain == InitLog /\ [][NextRetrain]_vars

(***************************************************************************)
(* The recording entry points (SpecRecord)                                 *)
(***************************************************************************)
MaxEvents == 2

\* Relevance scores and ratings a caller can hand in; the first and the last
\* of each lie outside the range.
EntryScores == {NoneNum, Rat(-1, 10), Zero, One, Rat(11, 10)}
EntryRatings == {NoneNum, Rat(0, 1), Rat(1, 1), Rat(5, 1), Rat(6, 1)}

\* (alert_id, user_id) of a call: both given, no alert id, no user id.
EntryKeys == {<<1, "user1">>, <<0, "user1">>, <<1, "">>}

\* The keyword arguments of AlertFeedback(...); timestamp is the default
\* datetime.now().
AlertFeedback(alert_id, user_id, feedback_type, rating, relevance_score) ==
    [id |-> 0, alert_id |-> alert_id, user_id |-> user_id,
     feedback_type |-> feedback_type, timestamp |-> now, rating |-> rating,
     relevance_score |-> relevance_score]

\* The body the record_* methods of AlertFeedbackService share: construct
\* the AlertFeedback, then record_feedback.
record_alert(rows, feedback) ==
    LET constructed == post_init(feedback)
    IN  IF HasRaised(constructed)
        THEN [rows |-> rows, raised |-> constructed.raised, printed |-> NoneStr,
              result |-> NoneNum]
        ELSE LET stored == record_feedback(rows, constructed)
             IN  [rows |-> stored, raised |-> NoneStr, printed |-> NoneStr,
                  result |-> stored[Len(stored)]]

\* One call of an entry point: of AlertFeedbackService, or of the AlertService
\* method that wraps it in try / except Exception / print and returns None.
RecordVia(op, feedback, wrapped) ==
    LET outcome == IF wrapped
                   THEN track_alert(feedback_rows, feedback, FALSE) @@ [result |-> NoneNum]
                   ELSE record_alert(feedback_rows, feedback)
    IN  /\ Len(outcome.rows) <= MaxEvents
        /\ feedback_rows' = outcome.rows
        /\ e_ret' = [op |-> op, entry |-> TRUE, wrapped |-> wrapped,
                     argument |-> feedback, raised |-> outcome.raised,
                     printed |-> outcome.printed, result |-> outcome.result]
        /\ UNCHANGED <<alerts, now, model_vars, predict_vars, truth_vars, side_vars>>

\* AlertFeedbackService.record_alert_view
RecordAlertView(alert_id, user_id, relevance_score) ==
    RecordVia("record_alert_view",
              AlertFeedback(alert_id, user_id, "view", NoneNum, relevance_score), FALSE)

\* AlertFeedbackService.record_alert_click
RecordAlertClick(alert_id, user_id) ==
    RecordVia("record_alert_click",
              AlertFeedback(alert_id, user_id, "click", NoneNum, NoneNum), FALSE)

\* AlertFeedbackService.record_alert_dismiss
RecordAlertDismiss(alert_id, user_id) ==
    RecordVia("record_alert_dismiss",
              AlertFeedback(alert_id, user_id, "dismiss", NoneNum, NoneNum), FALSE)

\* AlertFeedbackService.record_relevance_rating
RecordRelevanceRating(alert_id, user_id, rating) ==
    RecordVia("record_relevance_rating",
              AlertFeedback(alert_id, user_id, "rating", rating, NoneNum), FALSE)

\* AlertFeedbackService.record_relevance_mark
RecordRelevanceMark(alert_id, user_id, is_relevant) ==
    RecordVia("record_relevance_mark",
              AlertFeedback(alert_id, user_id,
                            IF is_relevant THEN "mark_relevant" ELSE "mark_irrelevant",
                            NoneNum, NoneNum), FALSE)

\* AlertService.track_alert_view
TrackAlertView(alert_id, user_id, relevance_score) ==
    RecordVia("track_alert_view",
              AlertFeedback(alert_id, user_id, "view", NoneNum, relevance_score), TRUE)

\* AlertService.track_alert_click
TrackAlertClick(alert_id, user_id) ==
    RecordVia("track_alert_click",
              AlertFeedback(alert_id, user_id, "click", NoneNum, NoneNum), TRUE)

\* AlertService.track_alert_dismiss
TrackAlertDismiss(alert_id, user_id) ==
    RecordVia("track_alert_dismiss",
              AlertFeedback(alert_id, user_id, "dismiss", NoneNum, NoneNum), TRUE)

\* AlertService.record_relevance_rating
ServiceRecordRelevanceRating(alert_id, user_id, rating) ==
    RecordVia("AlertService.record_relevance_rating",
              AlertFeedback(alert_id, user_id, "rating", rating, NoneNum), TRUE)

\* AlertService.record_relevance_mark
ServiceRecordRelevanceMark(alert_id, user_id, is_relevant) ==
    RecordVia("AlertService.record_relevance_mark",
              AlertFeedback(alert_id, user_id,
                            IF is_relevant THEN "mark_relevant" ELSE "mark_irrelevant",
                            NoneNum, NoneNum), TRUE)

\* AlertFeedback(alert_id, user_id, None) handed to record_feedback: the
\* constructor call with no kind.
RecordWithoutKind(alert_id, user_id) ==
    RecordVia("record_feedback",
              AlertFeedback(alert_id, user_id, NoneStr, NoneNum, NoneNum), FALSE)

NextRecord ==
    \/ \E relevance_score \in EntryScores : RecordAlertView(1, "user1", relevance_score)
    \/ \E key \in EntryKeys : RecordAlertView(key[1], key[2], NoneNum)
    \/ \E key \in EntryKeys : RecordAlertClick(key[1], key[2])
    \/ \E key \in EntryKeys : RecordAlertDismiss(key[1], key[2])
    \/ \E rating \in EntryRatings : RecordRelevanceRating(1, "user1", rating)
    \/ \E key \in EntryKeys : RecordRelevanceRating(key[1], key[2], Rat(5, 1))
    \/ \E key \in EntryKeys, is_relevant \in BOOLEAN :
          RecordRelevanceMark(key[1], key[2], is_relevant)
    \/ \E relevance_score \in EntryScores : TrackAlertView(1, "user1", relevance_score)
    \/ \E key \in EntryKeys : TrackAlertView(key[1], key[2], NoneNum)
    \/ \E key \in EntryKeys : TrackAlertClick(key[1], key[2])
    \/ \E key \in EntryKeys : TrackAlertDismiss(key[1], key[2])
    \/ \E rating \in EntryRatings : ServiceRecordRelevanceRating(1, "user1", rating)
    \/ \E key \in EntryKeys : ServiceRecordRelevanceRating(key[1], key[2], Rat(5, 1))
    \/ \E key \in EntryKeys, is_relevant \in BOOLEAN :
          ServiceRecordRelevanceMark(key[1], key[2], is_relevant)
    \/ RecordWithoutKind(1, "user1")

SpecRecord == InitStore /\ [][NextRecord]_vars

(***************************************************************************)
(* Alert construction and persistence (SpecAlert)                          *)
(***************************************************************************)
MaxStoredAlerts == 2

\* Alert.__post_init__: the alert itself, or the ValueError raised.  The four
\* mandatory fields are checked for truthiness; relevance_score is not looked
\* at.
alert_post_init(alert) ==
    IF ~Truthy(alert.user_id) THEN Raised("ValueError")
    ELSE IF ~Truthy(alert.portfolio_id) THEN Raised("ValueError")
    ELSE IF ~Truthy(alert.alert_type) THEN Raised("ValueError")
    ELSE IF alert.message = <<>> THEN Raised("ValueError")
    ELSE alert

\* AlertService.update_alert: UPDATE alerts SET ... WHERE id = ?.  An id of 0
\* stands for None; no stored row has it.
update_alert(table, alert) ==
    IF alert.id = 0 THEN Raised("ValueError")
    ELSE [table |-> [i \in 1..Len(table) |->
                        IF table[i].id = alert.id THEN alert ELSE table[i]],
          result |-> \E i \in 1..Len(table) : table[i].id = alert.id]

\* Keyword arguments of Alert(...): each mandatory field given or empty, and a
\* relevance score absent, inside, on the border of, or outside [0,1].
AlertScores == {NoneNum, Rat(-1, 10), Zero, Rat(1, 2), One, Rat(3, 2)}

AlertArgument(user_id, portfolio_id, alert_type, message, relevance_score) ==
    [id |-> 0, user_id |-> user_id, portfolio_id |-> portfolio_id,
     alert_type |-> alert_type, symbol |-> "AAPL", message |-> message,
     created_at |-> 1, is_active |-> TRUE, relevance_score |-> relevance_score]

AlertArguments ==
    {AlertArgument(user_id, portfolio_id, alert_type, message, NoneNum) :
        user_id \in {"", "user1"}, portfolio_id \in {"", "p1"},
        alert_type \in {"", "price_gain"}, message \in {<<>>, <<"u", "p">>}}
    \cup {AlertArgument("user1", "p1", "price_gain", <<"u", "p">>, relevance_score) :
        relevance_score \in AlertScores}

\* Alert(...) followed by AlertService.create_alert
CreateNewAlert(arguments) ==
    LET alert == alert_post_init(arguments)
    IN  /\ IF HasRaised(alert)
           THEN /\ UNCHANGED alerts
                /\ e_ret' = [op |-> "create_alert", argument |-> arguments,
                             raised |-> alert.raised, result |-> NoneNum]
           ELSE /\ Len(alerts) < MaxStoredAlerts
                /\ alerts' = create_alert(alerts, alert)
                /\ e_ret' = [op |-> "create_alert", argument |-> arguments,
                             raised |-> NoneStr, result |-> alerts'[Len(alerts')]]
        /\ UNCHANGED <<feedback_rows, now, model_vars, predict_vars, truth_vars, side_vars>>

\* Alert(id=..., ...) followed by AlertService.update_alert
UpdateAlert(id, arguments) ==
    LET alert == alert_post_init([arguments EXCEPT !.id = id])
        outcome == update_alert(alerts, alert)
    IN  /\ IF HasRaised(alert)
           THEN /\ UNCHANGED alerts
                /\ e_ret' = [op |-> "update_alert", argument |-> arguments,
                             raised |-> alert.raised, result |-> NoneNum]
           ELSE IF HasRaised(outcome)
           THEN /\ UNCHANGED alerts
                /\ e_ret' = [op |-> "update_alert", argument |-> arguments,
                             raised |-> outcome.raised, result |-> NoneNum]
           ELSE /\ alerts' = outcome.table
                /\ e_ret' = [op |-> "update_alert", argument |-> arguments,
                             raised |-> NoneStr, result |-> outcome.result]
        /\ UNCHANGED <<feedback_rows, now, model_vars, predict_vars, truth_vars, side_vars>>

NextAlert ==
    \/ \E arguments \in AlertArguments : CreateNewAlert(arguments)
    \/ \E id \in 0..MaxStoredAlerts, arguments \in AlertArguments :
          UpdateAlert(id, arguments)

SpecAlert == InitLog /\ [][NextAlert]_vars

(***************************************************************************)
(* Feature extraction over the training data of the store (SpecFeatures)   *)
(***************************************************************************)
\* Alert objects handed to create_alert: those of the feedback log, and one
\* with an empty symbol and relevance score 0.0.
FeatureAlerts ==
    LogAlerts
    \cup {[id |-> 0, alert_type |-> "earnings_report", symbol |-> "",
           message |-> <<"E", "a", "r", "n", "i", "n", "g", "s", " ", "5", "%">>,
           created_at |-> 1, relevance_score |-> Zero]}

IsTrainingData(r) ==
    /\ Get(r, "op", "") \in {"get_relevance_training_data", "_extract_features"}
    /\ r.raised = NoneStr

TrainingDataOf(r) == IF r.op = "_extract_features" THEN r.training_data ELSE r.result

\* RelevanceModel._extract_features on record i of the training data last
\* fetched, as the loop of train_with_feedback calls it.
ExtractFeatures(i) ==
    /\ IsTrainingData(e_ret)
    /\ i \in 1..Len(TrainingDataOf(e_ret))
    /\ e_ret' = [op |-> "_extract_features", raised |-> NoneStr,
                 training_data |-> TrainingDataOf(e_ret),
                 alert_data |-> TrainingDataOf(e_ret)[i],
                 result |-> extract_features(TrainingDataOf(e_ret)[i])]
    /\ UNCHANGED <<feedback_rows, alerts, now, model_vars, predict_vars, truth_vars, side_vars>>

NextFeatures ==
    \/ \E alert \in FeatureAlerts : CreateAlert(alert)
    \/ \E kind \in TrackKinds, alert_id \in TrackAlertIds, fails \in BOOLEAN :
          TrackAlert(kind, alert_id, "user1", fails)
    \/ \E days_back \in DaysBack, fails \in BOOLEAN :
          GetRelevanceTrainingData(days_back, fails)
    \/ \E i \in 1..MaxAlerts : ExtractFeatures(i)

SpecFeatures == InitLog /\ [][NextFeatures]_vars

(***************************************************************************)
(* MonitoringService.monitor_price_changes (SpecMonitor)                   *)
(***************************************************************************)
MaxHoldings == 2

\* A local variable that has not been assigned.
Unbound == [unbound |-> TRUE]

\* (current_price - previous_price) / previous_price * 100
percentage_change(current_price, previous_price) ==
    RatMul(RatDiv(RatSub(current_price, previous_price), previous_price), Rat(100, 1))

\* The loop of monitor_price_changes from the given holdings on.  threshold is
\* a local variable of the function, because line 313 assigns it: it is
\* unbound when line 291 reads it.  predict_relevance is called at line 308
\* with two of its three positional arguments, which raises TypeError before
\* line 313 is reached, so nothing ever binds threshold and lines 312-343
\* (duplicate check and create_alert) never run.
RECURSIVE MonitorHoldings(_, _, _, _)
MonitorHoldings(holdings, prices, table, threshold) ==
    IF holdings = <<>> THEN [table |-> table, raised |-> NoneStr]
    ELSE LET holding == Head(holdings)
             current_price == prices[holding.symbol]
             previous_price == holding.purchase_price
         IN  IF current_price = NoneNum
             THEN MonitorHoldings(Tail(holdings), prices, table, threshold)
             ELSE IF RatLT(Zero, previous_price)
             THEN IF threshold = Unbound
                  THEN [table |-> table, raised |-> "UnboundLocalError"]
                  ELSE LET change == percentage_change(current_price, previous_price)
                           alert_type ==
                               IF RatLE(threshold, change) THEN "price_gain"
                               ELSE IF RatLE(change, RatSub(Zero, threshold))
                               THEN "price_drop"
                               ELSE NoneStr
                       IN  IF alert_type # NoneStr
                           THEN [table |-> table, raised |-> "TypeError"]
                           ELSE MonitorHoldings(Tail(holdings), prices, table, threshold)
             ELSE MonitorHoldings(Tail(holdings), prices, table, threshold)

\* monitor_price_changes(user_id, portfolio): the signature has no threshold
\* parameter, so a call that passes one raises TypeError at the call.
monitor_price_changes(holdings, prices, table, passes_threshold) ==
    IF passes_threshold THEN [table |-> table, raised |-> "TypeError"]
    ELSE MonitorHoldings(holdings, prices, table, Unbound)

\* user_config.get("price_change_threshold", 1.0)
DefaultThreshold == One

MonitorSymbols == {"AAPL", "MSFT"}

\* StockHolding objects: the purchase price is positive by construction.
Holdings == {[symbol |-> symbol, quantity |-> 10, purchase_price |-> Rat(100, 1)] :
                symbol \in MonitorSymbols}

Portfolios == SeqsUpTo(Holdings, MaxHoldings)

\* What get_current_price returns per symbol: None, or a price 10 % below,
\* equal to, or 10 % above the purchase price.
CurrentPrices == [MonitorSymbols -> {NoneNum, Rat(90, 1), Rat(100, 1), Rat(110, 1)}]

\* The threshold of the call monitor_price_changes(user, portfolio, threshold=...).
ThresholdArguments == {Rat(1, 10), Rat(5, 1)}

\* monitor_price_changes(user_id, portfolio)
MonitorPriceChanges(user_id, holdings, prices) ==
    LET outcome == monitor_price_changes(holdings, prices, alerts, FALSE)
    IN  /\ alerts' = outcome.table
        /\ e_ret' = [op |-> "monitor_price_changes", user_id |-> user_id,
                     holdings |-> holdings, prices |-> prices,
                     threshold |-> DefaultThreshold, raised |-> outcome.raised,
                     result |-> NoneNum]
        /\ UNCHANGED <<feedback_rows, now, model_vars, predict_vars, truth_vars, side_vars>>

\* monitor_price_changes(user_id, portfolio, threshold=threshold)
MonitorPriceChangesWithThreshold(user_id, holdings, prices, threshold) ==
    LET outcome == monitor_price_changes(holdings, prices, alerts, TRUE)
    IN  /\ alerts' = outcome.table
        /\ e_ret' = [op |-> "monitor_price_changes", user_id |-> user_id,
                     holdings |-> holdings, prices |-> prices,
                     threshold |-> threshold, raised |-> outcome.raised,
                     result |-> NoneNum]
        /\ UNCHANGED <<feedback_rows, now, model_vars, predict_vars, truth_vars, side_vars>>

NextMonitor ==
    \/ \E holdings \in Portfolios, prices \in CurrentPrices :
          MonitorPriceChanges("user1", holdings, prices)
    \/ \E holdings \in Portfolios, prices \in CurrentPrices,
           threshold \in ThresholdArguments :
          MonitorPriceChangesWithThreshold("user1", holdings, prices, threshold)

SpecMonitor == InitLog /\ [][NextMonitor]_vars

(***************************************************************************)
(* UserConfigService (SpecConfig)                                          *)
(***************************************************************************)
MaxConfigRows == 3

\* json.dumps of a configuration with string keys: the text, as the set of
\* its "key": value members.
json_dumps(config) == {<<key, config[key]>> : key \in DOMAIN config}

\* json.loads of such a text.
json_loads(text) ==
    [key \in {member[1] : member \in text} |->
        (CHOOSE member \in text : member[1] = key)[2]]

\* PRIMARY KEY (user_id, portfolio_id): two rows conflict when both columns
\* are equal; a NULL portfolio_id equals nothing, itself included.
KeyConflict(row, user_id, portfolio_id) ==
    /\ row.user_id = user_id
    /\ portfolio_id # NoneStr
    /\ row.portfolio_id = portfolio_id

\* save_user_config: risk_profile defaults to "moderate"; INSERT OR REPLACE
\* deletes the rows in conflict and inserts the new one.
save_user_config(table, user_id, config, portfolio_id) ==
    LET filled == IF "risk_profile" \in DOMAIN config THEN config
                  ELSE config @@ [risk_profile |-> "moderate"]
    IN  Append(SelectSeq(table, LAMBDA row : ~KeyConflict(row, user_id, portfolio_id)),
               [user_id |-> user_id, portfolio_id |-> portfolio_id,
                config_json |-> json_dumps(filled)])

\* WHERE user_id = ? AND portfolio_id IS ?
ConfigRows(table, user_id, portfolio_id) ==
    {i \in 1..Len(table) : /\ table[i].user_id = user_id
                            /\ table[i].portfolio_id = portfolio_id}

\* get_user_config: the results it can return.  The query has no ORDER BY, so
\* fetchone() may deliver any of the matching rows.
get_user_config(table, user_id, portfolio_id) ==
    IF ConfigRows(table, user_id, portfolio_id) = {} THEN {EmptyDict}
    ELSE {json_loads(table[i].config_json) : i \in ConfigRows(table, user_id, portfolio_id)}

ConfigUsers == {"user1", "user2"}
PortfolioIds == {NoneStr, "p1"}

\* Configuration mappings handed to save_user_config; a number is written as
\* its JSON text.
Configs ==
    {EmptyDict,
     [min_price_change_alert |-> "2.0", risk_profile |-> "aggressive"],
     [min_price_change_alert |-> "5.0"]}

\* UserConfigService.save_user_config
SaveUserConfig(user_id, config, portfolio_id) ==
    /\ Len(save_user_config(user_configs, user_id, config, portfolio_id)) <= MaxConfigRows
    /\ user_configs' = save_user_config(user_configs, user_id, config, portfolio_id)
    /\ e_ret' = [op |-> "save_user_config", user_id |-> user_id, config |-> config,
                 portfolio_id |-> portfolio_id, raised |-> NoneStr, result |-> NoneNum]
    /\ UNCHANGED <<feedback_rows, alerts, now, model_vars, predict_vars, truth_vars,
                   held_results, workers, api>>

\* UserConfigService.get_user_config
GetUserConfig(user_id, portfolio_id) ==
    /\ \E config \in get_user_config(user_configs, user_id, portfolio_id) :
          e_ret' = [op |-> "get_user_config", user_id |-> user_id,
                    portfolio_id |-> portfolio_id, raised |-> NoneStr, result |-> config]
    /\ UNCHANGED <<feedback_rows, alerts, now, model_vars, predict_vars, truth_vars,
                   side_vars>>

NextConfig ==
    \/ \E user_id \in ConfigUsers, config \in Configs, portfolio_id \in PortfolioIds :
          SaveUserConfig(user_id, config, portfolio_id)
    \/ \E user_id \in ConfigUsers, portfolio_id \in PortfolioIds :
          GetUserConfig(user_id, portfolio_id)

SpecConfig == InitLog /\ [][NextConfig]_vars

(***************************************************************************)
(* Results of the model held by the caller (SpecSnapshot)                  *)
(***************************************************************************)
MaxHeld == 2

\* The dict object self.model_performance, as opposed to a copy of it.
ModelPerformanceObject == [object |-> "self.model_performance"]

\* What a held mapping shows when it is read: the object shows the model's
\* current model_performance, a copy shows what was copied.
Shown(mapping) == IF mapping = ModelPerformanceObject THEN model_performance ELSE mapping

\* The caller keeps a result while it has room for one.
Hold(result) ==
    held_results' = IF Len(held_results) < MaxHeld THEN Append(held_results, result)
                    ELSE held_results

\* train_with_feedback, its result kept by the caller.  Each of the three
\* returns puts self.model_performance itself under "performance".
TrainAndHold(training_data) ==
    /\ Train(training_data, TrainingLoop[training_data])
    /\ IF HasRaised(TrainingLoop[training_data])
       THEN UNCHANGED held_results
       ELSE Hold([op |-> "train_with_feedback", status |-> ret'.status,
                  performance |-> ModelPerformanceObject,
                  at_return |-> model_performance'])
    /\ UNCHANGED <<pred_log, predict_vars, truth_vars, store_vars,
                   user_configs, workers, api>>

\* get_model_performance, its result kept by the caller: a copy.
GetModelPerformanceAndHold ==
    /\ ret' = [op |-> "get_model_performance", result |-> model_performance]
    /\ Hold([op |-> "get_model_performance", performance |-> model_performance,
             at_return |-> model_performance])
    /\ UNCHANGED <<feedback_data, model_performance, now, pred_log,
                   predict_vars, truth_vars, store_vars, user_configs, workers, api>>

NextSnapshot ==
    \/ \E training_data \in PurityTrainingInputs : TrainAndHold(training_data)
    \/ GetModelPerformanceAndHold

SpecSnapshot == Init /\ [][NextSnapshot]_vars

(***************************************************************************)
(* Training on what the store has recorded (SpecLearn)                     *)
(***************************************************************************)
\* get_relevance_training_data(days_back) of the feedback service, then
\* train_with_feedback on the list it returned.
TrainOnStore(days_back) ==
    /\ \E training_data \in
              get_relevance_training_data(alerts, feedback_rows, now - days_back) :
          /\ Train(training_data, TrainingPairs(training_data, <<>>))
          /\ e_ret' = [op |-> "get_relevance_training_data", raised |-> NoneStr,
                       days_back |-> days_back, result |-> training_data]
    /\ UNCHANGED <<feedback_rows, alerts, pred_log, predict_vars, truth_vars, side_vars>>

NextLearn ==
    \/ \E alert \in LogAlerts : CreateAlert(alert)
    \/ \E rating \in EntryRatings : RecordRelevanceRating(1, "user1", rating)
    \/ \E is_relevant \in BOOLEAN : RecordRelevanceMark(2, "user1", is_relevant)
    \/ RecordAlertView(1, "user1", NoneNum)
    \/ \E days_back \in {1, DemoDaysBack} : TrainOnStore(days_back)

SpecLearn == InitLog /\ [][NextLearn]_vars

(***************************************************************************)
(* Workers on one database file (SpecWorkers)                              *)
(***************************************************************************)
MaxWorkerRows == 2

Writers == {"w1", "w2"}
Readers == {"r1"}
Workers == Writers \cup Readers

\* The alerts that exist beside the workers, in the order they are created.
WorkerAlerts ==
    <<[id |-> 0, alert_type |-> "price_gain", symbol |-> "AAPL",
       message |-> <<"u", "p">>, created_at |-> 1, relevance_score |-> Rat(7, 10)],
      [id |-> 0, alert_type |-> "news_sentiment", symbol |-> NoneStr,
       message |-> <<"N", "e", "w", "s">>, created_at |-> 1, relevance_score |-> NoneNum]>>

\* A worker outside every call: no connection, nothing fetched, and the
\* AlertFeedback objects its record_feedback calls have returned so far.
WorkerInit ==
    [pc |-> "idle", call |-> NoneStr, argument |-> NoneNum, pending |-> NoneNum,
     position |-> 0, fetched |-> <<>>, recorded |-> <<>>, result |-> Idle]

InitWorkers ==
    /\ feedback_rows = <<>> /\ e_ret = Idle /\ alerts = <<>>
    /\ ModelIdle /\ PredictIdle /\ TruthIdle /\ ClockIdle
    /\ user_configs = <<>> /\ held_results = <<>> /\ api = Idle
    /\ workers = [w \in Workers |-> WorkerInit]

worker_frame == <<e_ret, now, model_vars, predict_vars, truth_vars,
                  user_configs, held_results, api>>

\* sqlite3.connect(DATABASE_FILE) with the default rollback journal: the
\* connection of a worker holds the RESERVED lock of the file from its INSERT
\* to its commit, and the SHARED lock while its SELECT is being fetched.
HoldsReserved(w) == workers[w].pc = "commit"
HoldsShared(w) == workers[w].pc = "fetch"

\* cursor.execute("INSERT ..."): one connection at a time gets RESERVED.
CanInsert(w) == \A other \in Workers \ {w} : ~HoldsReserved(other)

\* Mutation of CanCommit: the commit does not wait for the readers.
CanCommit_IgnoringReaders(w) == TRUE

\* conn.commit(): EXCLUSIVE is granted when no other connection holds SHARED.
CanCommit(w) == \A other \in Workers \ {w} : ~HoldsShared(other)

\* AlertService.create_alert, one transaction of a connection of its own.
WorkerCreateAlert ==
    /\ Len(alerts) < Len(WorkerAlerts)
    /\ \A w \in Workers : ~HoldsReserved(w) /\ ~HoldsShared(w)
    /\ alerts' = create_alert(alerts, WorkerAlerts[Len(alerts) + 1])
    /\ UNCHANGED <<feedback_rows, workers, worker_frame>>

\* record_feedback(feedback) up to the INSERT: the connection is open.
CallRecordFeedback(w, feedback) ==
    /\ workers[w].pc = "idle"
    /\ Len(feedback_rows) + Cardinality({o \in Writers : workers[o].pc # "idle"})
          < MaxWorkerRows
    /\ workers' = [workers EXCEPT ![w] =
                      [@ EXCEPT !.pc = "insert", !.call = "record_feedback",
                                !.argument = feedback, !.result = Idle]]
    /\ UNCHANGED <<feedback_rows, alerts, worker_frame>>

\* cursor.execute("INSERT ...") and feedback.id = cursor.lastrowid: the row is
\* in the transaction of this connection, not yet in the file.
Insert(w) ==
    /\ workers[w].pc = "insert"
    /\ CanInsert(w)
    /\ workers' = [workers EXCEPT ![w] =
                      [@ EXCEPT !.pc = "commit",
                                !.pending = [workers[w].argument EXCEPT
                                                !.id = lastrowid(feedback_rows)]]]
    /\ UNCHANGED <<feedback_rows, alerts, worker_frame>>

\* The INSERT waited for the lock longer than the timeout of the connection:
\* sqlite3.OperationalError (database is locked) leaves record_feedback.
InsertTimeout(w) ==
    /\ workers[w].pc = "insert"
    /\ ~CanInsert(w)
    /\ workers' = [workers EXCEPT ![w] =
                      [@ EXCEPT !.pc = "idle", !.result = Raised("OperationalError")]]
    /\ UNCHANGED <<feedback_rows, alerts, worker_frame>>

\* conn.commit(); conn.close(); return feedback
Commit(w) ==
    /\ workers[w].pc = "commit"
    /\ CanCommit(w)
    /\ feedback_rows' = Append(feedback_rows, workers[w].pending)
    /\ workers' = [workers EXCEPT ![w] =
                      [@ EXCEPT !.pc = "idle", !.pending = NoneNum,
                                !.recorded = Append(@, workers[w].pending),
                                !.result = workers[w].pending]]
    /\ UNCHANGED <<alerts, worker_frame>>

\* The commit waited for a reader longer than the timeout: the exception
\* leaves record_feedback and the dropped connection rolls the row back.
CommitTimeout(w) ==
    /\ workers[w].pc = "commit"
    /\ ~CanCommit(w)
    /\ workers' = [workers EXCEPT ![w] =
                      [@ EXCEPT !.pc = "idle", !.pending = NoneNum,
                                !.result = Raised("OperationalError")]]
    /\ UNCHANGED <<feedback_rows, alerts, worker_frame>>

\* get_relevance_training_data(days_back) up to cursor.execute: the SELECT
\* has started and nothing is fetched yet.
CallTrainingData(w, days_back) ==
    /\ workers[w].pc = "idle"
    /\ workers' = [workers EXCEPT ![w] =
                      [@ EXCEPT !.pc = "fetch", !.call = "get_relevance_training_data",
                                !.argument = days_back, !.position = 1,
                                !.fetched = <<>>, !.result = Idle]]
    /\ UNCHANGED <<feedback_rows, alerts, worker_frame>>

\* calculate_alert_engagement_score(alert_id) up to the cursor.execute of its
\* get_feedback_for_alert.
CallEngagementScore(w, alert_id) ==
    /\ workers[w].pc = "idle"
    /\ workers' = [workers EXCEPT ![w] =
                      [@ EXCEPT !.pc = "fetch", !.call = "calculate_alert_engagement_score",
                                !.argument = alert_id, !.position = 1,
                                !.fetched = <<>>, !.result = Idle]]
    /\ UNCHANGED <<feedback_rows, alerts, worker_frame>>

\* The rows the SELECT of the call walks over: the alerts for the join, the
\* events for the query of one alert.
Scanned(w) ==
    IF workers[w].call = "get_relevance_training_data" THEN alerts ELSE feedback_rows

\* What the SELECT yields at one position, from the file as it is then.
Yield(w) ==
    LET row == Scanned(w)[workers[w].position]
    IN  IF workers[w].call = "get_relevance_training_data"
        THEN IF row.created_at >= now - workers[w].argument
             THEN JoinRowsOf(row, feedback_rows) ELSE {<<>>}
        ELSE IF row.alert_id = workers[w].argument THEN {<<row>>} ELSE {<<>>}

\* cursor.fetchall(), one position of the scan at a time.
Fetch(w) ==
    /\ workers[w].pc = "fetch"
    /\ workers[w].position <= Len(Scanned(w))
    /\ \E rows \in Yield(w) :
          workers' = [workers EXCEPT ![w] =
                         [@ EXCEPT !.position = @ + 1,
                                   !.fetched = workers[w].fetched \o rows]]
    /\ UNCHANGED <<feedback_rows, alerts, worker_frame>>

\* conn.close() and the aggregation of the fetched rows.
ReturnRead(w) ==
    /\ workers[w].pc = "fetch"
    /\ workers[w].position > Len(Scanned(w))
    /\ workers' = [workers EXCEPT ![w] =
          [@ EXCEPT !.pc = "idle",
                    !.result =
                        IF workers[w].call = "get_relevance_training_data"
                        THEN GroupByAlert(workers[w].fetched, <<>>, NoneNum, <<>>)
                        ELSE calculate_alert_engagement_score(workers[w].fetched,
                                                              workers[w].argument)]]
    /\ UNCHANGED <<feedback_rows, alerts, worker_frame>>

WorkerAlertIds == 1..Len(WorkerAlerts)

NextWorkers ==
    \/ WorkerCreateAlert
    \/ \E w \in Writers, alert_id \in WorkerAlertIds :
          CallRecordFeedback(w, AlertFeedback(alert_id, w, "click", NoneNum, NoneNum))
    \/ \E w \in Writers : Insert(w)
    \/ \E w \in Writers : InsertTimeout(w)
    \/ \E w \in Writers : Commit(w)
    \/ \E w \in Writers : CommitTimeout(w)
    \/ \E w \in Readers : CallTrainingData(w, DemoDaysBack)
    \/ \E w \in Readers, alert_id \in WorkerAlertIds : CallEngagementScore(w, alert_id)
    \/ \E w \in Readers : Fetch(w)
    \/ \E w \in Readers : ReturnRead(w)

SpecWorkers == InitWorkers /\ [][NextWorkers]_vars

(***************************************************************************)
(* The HTTP call with retries (SpecApi)                                    *)
(***************************************************************************)
MaxRetries == 3
DefaultMaxRetries == 5
DefaultBackoffFactor == Rat(1, 2)

\* What one requests.get(url) can end with: a response with its status code,
\* or an exception of requests.exceptions.
Responses == {[status_code |-> code] : code \in {200, 404, 429, 500}}
RequestExceptions ==
    {[exception |-> name] :
        name \in {"ConnectionError", "ConnectTimeout", "Timeout", "ReadTimeout",
                  "TooManyRedirects"}}
Outcomes == Responses \cup RequestExceptions

IsResponse(outcome) == "status_code" \in DOMAIN outcome

\* requests.exceptions: the classes an exception is an instance of.
IsInstance(name, class) ==
    \/ name = class
    \/ class = "RequestException"
    \/ name = "ConnectTimeout" /\ class \in {"ConnectionError", "Timeout"}
    \/ name = "ReadTimeout" /\ class = "Timeout"

\* response.raise_for_status(): HTTPError for the 4xx and 5xx responses.
raise_for_status(outcome) ==
    IF IsResponse(outcome) /\ 400 <= outcome.status_code /\ outcome.status_code < 600
    THEN [exception |-> "HTTPError", response |-> outcome]
    ELSE outcome

\* Mutation of except_clause: every HTTP error is retried.
except_clause_RetryEveryHttpError(raised) ==
    IF IsInstance(raised.exception, "HTTPError") THEN "sleep"
    ELSE IF IsInstance(raised.exception, "ConnectionError") THEN "sleep"
    ELSE IF IsInstance(raised.exception, "Timeout") THEN "sleep"
    ELSE "raise"

\* The except clause that handles the exception, first match first: sleep
\* and go on with the loop, or raise again.
except_clause(raised) ==
    IF IsInstance(raised.exception, "HTTPError")
    THEN IF raised.response.status_code = 429 THEN "sleep" ELSE "raise"
    ELSE IF IsInstance(raised.exception, "ConnectionError") THEN "sleep"
    ELSE IF IsInstance(raised.exception, "Timeout") THEN "sleep"
    ELSE "raise"

RECURSIVE Pow2(_)
Pow2(i) == IF i = 0 THEN 1 ELSE 2 * Pow2(i - 1)

\* backoff_factor * (2 ** i)
Backoff(backoff_factor, i) == RatMul(backoff_factor, Rat(Pow2(i), 1))

RetryArguments == (0..MaxRetries) \cup {DefaultMaxRetries}
BackoffFactors == {DefaultBackoffFactor, Zero, One, Rat(-1, 2)}

InitApi ==
    /\ ModelIdle /\ PredictIdle /\ TruthIdle /\ StoreIdle /\ ClockIdle /\ SideIdle

api_frame == <<now, model_vars, predict_vars, truth_vars, store_vars,
               user_configs, held_results, workers>>

ApiRunning == api # Idle /\ api.pc \in {"get", "sleep"}

\* _make_api_call(url, max_retries, backoff_factor) up to the for statement.
MakeApiCall(max_retries, backoff_factor) ==
    /\ ~ApiRunning
    /\ api' = [pc |-> "get", max_retries |-> max_retries,
               backoff_factor |-> backoff_factor, i |-> 0,
               attempts |-> <<>>, slept |-> <<>>, result |-> NoneNum]
    /\ UNCHANGED api_frame

\* One pass of the loop up to the return, the raise or the time.sleep:
\* requests.get(url), response.raise_for_status() and the except clause.
Attempt(outcome) ==
    /\ ApiRunning /\ api.pc = "get"
    /\ api.i < api.max_retries
    /\ LET checked == raise_for_status(outcome)
           attempts == Append(api.attempts, outcome)
       IN  api' = IF IsResponse(checked)
                  THEN [api EXCEPT !.attempts = attempts, !.pc = "returned",
                                   !.result = checked]
                  ELSE IF except_clause(checked) = "sleep"
                  THEN [api EXCEPT !.attempts = attempts, !.pc = "sleep"]
                  ELSE [api EXCEPT !.attempts = attempts, !.pc = "raised",
                                   !.result = checked]
    /\ UNCHANGED api_frame

\* time.sleep(backoff_factor * (2**i)) and the next value of i; a negative
\* length makes time.sleep raise ValueError.
Sleep ==
    /\ ApiRunning /\ api.pc = "sleep"
    /\ LET secs == Backoff(api.backoff_factor, api.i)
       IN  api' = IF RatLT(secs, Zero)
                  THEN [api EXCEPT !.pc = "raised", !.result = [exception |-> "ValueError"]]
                  ELSE [api EXCEPT !.pc = "get", !.i = @ + 1,
                                   !.slept = Append(@, secs)]
    /\ UNCHANGED api_frame

\* range(max_retries) is exhausted: raise Exception("Failed to make API call ...")
Exhausted ==
    /\ ApiRunning /\ api.pc = "get"
    /\ api.i >= api.max_retries
    /\ api' = [api EXCEPT !.pc = "raised", !.result = [exception |-> "Exception"]]
    /\ UNCHANGED api_frame

ApiStep == (\E outcome \in Outcomes : Attempt(outcome)) \/ Sleep \/ Exhausted

NextApi ==
    \/ \E max_retries \in RetryArguments, backoff_factor \in BackoffFactors :
          MakeApiCall(max_retries, backoff_factor)
    \/ \E outcome \in Outcomes : Attempt(outcome)
    \/ Sleep
    \/ Exhausted

\* Every statement of a call in progress is eventually executed, and every
\* requests.get and time.sleep it executes comes back.
SpecApi == InitApi /\ [][NextApi]_vars /\ WF_vars(ApiStep)

(***************************************************************************)
(* Properties of the RelevanceModel object (Spec, SpecPurity)              *)
(***************************************************************************)
IsCall(r, op) == Get(r, "op", "") = op

StatusOf(r) == Get(r, "status", "none")

YieldsTruth(record) == IsNum(calculate_ground_truth(Get(record, "feedback", <<>>)))

SomeYieldsTruth(training_data) ==
    \E i \in 1..Len(training_data) : YieldsTruth(training_data[i])

\* C2: the status is "no_data" exactly for the empty list, "no_valid_data"
\* exactly for a non-empty list none of whose records yields a ground truth,
\* "success" otherwise; a call that does not succeed raises nothing and leaves
\* the performance record and the stored feedback set as they were.
C2_StatusContract ==
    [][IsCall(ret', "train_with_feedback") =>
          LET training_data == ret'.training_data
          IN  /\ ~HasRaised(ret')
              /\ StatusOf(ret') = "no_data" <=> training_data = <<>>
              /\ StatusOf(ret') = "no_valid_data" <=>
                    (training_data # <<>> /\ ~SomeYieldsTruth(training_data))
              /\ StatusOf(ret') = "success" <=>
                    (training_data # <<>> /\ SomeYieldsTruth(training_data))
              /\ StatusOf(ret') # "success" =>
                    /\ model_performance' = model_performance
                    /\ feedback_data' = feedback_data]_vars

\* The pairs a training input is to leave behind: one per record with a ground
\* truth, in input order.
ExpectedPairs(training_data) ==
    LET graded == SelectSeq(training_data, YieldsTruth)
    IN  [i \in 1..Len(graded) |->
            <<extract_features(graded[i]), calculate_ground_truth(graded[i].feedback)>>]

\* C3: a successful call leaves exactly the pairs of its own input, one per
\* record with a ground truth, in input order, and reports their number as
\* training_samples; every other step leaves the stored set as it was.
C3_StoredSetIsLastSuccess ==
    [][IF IsCall(ret', "train_with_feedback") /\ StatusOf(ret') = "success"
       THEN /\ feedback_data' = ExpectedPairs(ret'.training_data)
            /\ ret'.training_samples = Len(feedback_data')
       ELSE feedback_data' = feedback_data]_vars

\* A second successful training whose input held a record without ground
\* truth has replaced the stored set by its single pair.
C3_SecondTrainingReplaced ==
    /\ IsCall(ret, "train_with_feedback") /\ StatusOf(ret) = "success"
    /\ now >= 3
    /\ Len(ret.training_data) = 2
    /\ ret.training_samples = 1
    /\ Len(feedback_data) = 1

GradedPrediction(features) ==
    predict_relevance([type |-> features.alert_type, symbol |-> features.symbol],
                      [min_price_change_alert |-> One, risk_profile |-> "moderate"],
                      [symbols_held |-> {}, holding_quantities |-> EmptyDict])

WithinCount(pairs) ==
    Cardinality({i \in 1..Len(pairs) :
        RatLE(RatAbs(RatSub(GradedPrediction(pairs[i][1]), pairs[i][2])), Rat(1, 5))})

\* C4: precision, recall and f1_score always equal accuracy; before the first
\* successful training all are 0 and last_updated is None; afterwards accuracy
\* is the fraction of graded records predicted within 0.2 of their label and
\* last_updated is set.
C4_PerformanceRecord ==
    /\ model_performance.precision = model_performance.accuracy
    /\ model_performance.recall = model_performance.accuracy
    /\ model_performance.f1_score = model_performance.accuracy
    /\ feedback_data = <<>> =>
          /\ model_performance.accuracy = Zero
          /\ model_performance.last_updated = NoneNum
    /\ feedback_data # <<>> =>
          /\ IsNum(model_performance.last_updated)
          /\ IsNum(model_performance.accuracy)
          /\ model_performance.accuracy.n * Len(feedback_data)
                = WithinCount(feedback_data) * model_performance.accuracy.d
    /\ (IsCall(ret, "train_with_feedback") /\ StatusOf(ret) = "success") =>
          ret.performance = model_performance

\* A training has graded two records, one of them exactly 0.2 off its
\* prediction and one further off: accuracy 1/2.
C4_HalfAccurate ==
    /\ Len(feedback_data) = 2
    /\ \E i \in 1..2 :
          RatAbs(RatSub(GradedPrediction(feedback_data[i][1]), feedback_data[i][2]))
             = Rat(1, 5)
    /\ model_performance.accuracy = Rat(1, 2)
    /\ IsNum(model_performance.last_updated)

TypeOfPair(pair) == pair[1].alert_type

LabelsOfType(pairs, alert_type) ==
    LET own == SelectSeq(pairs, LAMBDA pair : TypeOfPair(pair) = alert_type)
    IN  [i \in 1..Len(own) |-> own[i][2]]

RECURSIVE CountTotal(_, _)
CountTotal(stats, types) ==
    IF types = {} THEN 0
    ELSE LET t == CHOOSE x \in types : TRUE
         IN  stats[t].count + CountTotal(stats, types \ {t})

\* C5: the report is the sentinel when nothing is stored; otherwise
\* total_samples is the number of stored pairs, the per-type counts sum to it,
\* average_relevance is the mean of all labels and each type's avg_relevance
\* the mean of that type's labels.
C5_Insights ==
    IsCall(ret, "get_feedback_insights") =>
        IF feedback_data = <<>>
        THEN ret.result = [message |-> "No feedback data available"]
        ELSE LET report == ret.result
                 stats == report.alert_type_statistics
                 all == [i \in 1..Len(feedback_data) |-> feedback_data[i][2]]
             IN  /\ report.total_samples = Len(feedback_data)
                 /\ CountTotal(stats, DOMAIN stats) = report.total_samples
                 /\ IsNum(report.average_relevance)
                 /\ RatMul(report.average_relevance, Rat(Len(all), 1)) = RatSum(all)
                 /\ DOMAIN stats = {TypeOfPair(feedback_data[i]) : i \in 1..Len(feedback_data)}
                 /\ \A t \in DOMAIN stats :
                       /\ stats[t].count = Len(LabelsOfType(feedback_data, t))
                       /\ IsNum(stats[t].avg_relevance)
                       /\ RatMul(stats[t].avg_relevance, Rat(stats[t].count, 1))
                             = RatSum(LabelsOfType(feedback_data, t))

\* Insights have been reported over two alert-type groups with different labels.
C5_TwoGroups ==
    /\ IsCall(ret, "get_feedback_insights")
    /\ Len(feedback_data) = 2
    /\ Cardinality(DOMAIN ret.result.alert_type_statistics) = 2
    /\ feedback_data[1][2] # feedback_data[2][2]

\* C10: a predict_relevance call changes neither the stored feedback set nor
\* the performance record, and all calls with the same arguments, whatever
\* trainings lie between them, have returned the same score.
C10_PredictIsPure ==
    [][IsCall(ret', "predict_relevance") =>
          /\ feedback_data' = feedback_data
          /\ model_performance' = model_performance
          /\ \A a, b \in pred_log' : a[1] = b[1] => a[2] = b[2]]_vars

\* The same arguments have been scored before and after a successful training.
C10_ScoredAcrossTraining ==
    /\ IsCall(ret, "predict_relevance")
    /\ feedback_data # <<>>
    /\ \E a, b \in pred_log : a[1] = b[1] /\ a[3] < b[3] /\ b[1] = ret.arguments

(***************************************************************************)
(* Properties of predict_relevance (SpecPredict)                           *)
(***************************************************************************)
PredictRaw == RawScore(p_in.alert, p_in.user_preferences, p_in.portfolio_context)

\* C1: whatever the alert, the preferences and the portfolio context,
\* predict_relevance returns a score in [0,1]; when base plus adjustments is
\* above 1 the score is exactly 1, when it is below 0 the score is exactly 0.
C1_ScoreInUnitInterval ==
    IsNum(p_out) =>
        /\ RatLE(Zero, p_out) /\ RatLE(p_out, One)
        /\ (RatLT(One, PredictRaw) => p_out = One)
        /\ (RatLT(PredictRaw, Zero) => p_out = Zero)
        /\ (RatLE(Zero, PredictRaw) /\ RatLE(PredictRaw, One) => p_out = PredictRaw)

\* A price alert with the extreme change has been scored: the sum is far above
\* 1 and the score is 1.
C1_ClampBinds ==
    /\ IsNum(p_out)
    /\ RatAbs(Get(p_in.alert, "change", Zero)) = Rat(MaxChange, 1)
    /\ RatLT(Rat(2, 1), PredictRaw)
    /\ p_out = One

\* The parts of a scored call, as the specification names them.
AlertType == p_in.alert["type"]
AlertSymbol == Get(p_in.alert, "symbol", NoneStr)
AbsChange == Abs(Get(p_in.alert, "change", Zero).n)
MinChange == Get(p_in.user_preferences, "min_price_change_alert", Zero).n
Profile == Get(p_in.user_preferences, "risk_profile", "moderate")
SymbolHeld == AlertSymbol \in Get(p_in.portfolio_context, "symbols_held", {})
Quantities == Get(p_in.portfolio_context, "holding_quantities", EmptyDict)
IsPriceAlert == AlertType \in {"price_gain", "price_drop"}

\* The score rebuilt from the model's other adjustments and one adjustment
\* stated in hundredths.
ScoreWith(others, hundredths) == Clamp01(RatAdd(others, Rat(hundredths, 100)))

BaseRiskHolding ==
    RatAdd(RatAdd(BaseScore, RiskAdjustment(p_in.alert, p_in.user_preferences)),
           HoldingAdjustment(p_in.alert, p_in.portfolio_context))

BaseTypeHolding ==
    RatAdd(RatAdd(BaseScore,
                  TypeAdjustment(p_in.alert, p_in.user_preferences, p_in.portfolio_context)),
           HoldingAdjustment(p_in.alert, p_in.portfolio_context))

BaseTypeRisk ==
    RatAdd(RatAdd(BaseScore,
                  TypeAdjustment(p_in.alert, p_in.user_preferences, p_in.portfolio_context)),
           RiskAdjustment(p_in.alert, p_in.user_preferences))

\* A call with nothing but the given alert keys, preferences and context.
PlainCall(alert, user_preferences, portfolio_context) ==
    p_in = [alert |-> alert, user_preferences |-> user_preferences,
            portfolio_context |-> portfolio_context]

C13_EarningsHeld ==
    (IsNum(p_out) /\ AlertType = "earnings_report") =>
        /\ p_out = ScoreWith(BaseRiskHolding, IF SymbolHeld THEN 20 ELSE 0)
        /\ PlainCall([type |-> "earnings_report", symbol |-> "AAPL"],
                     [risk_profile |-> "moderate"], [symbols_held |-> {"AAPL"}])
              => p_out = Rat(7, 10)
        /\ \A ctx \in {EmptyDict, [symbols_held |-> {}]} :
              PlainCall([type |-> "earnings_report", symbol |-> "AAPL"],
                        [risk_profile |-> "moderate"], ctx)
                  => p_out = Rat(1, 2)
        /\ PlainCall([type |-> "earnings_report", symbol |-> "MSFT"],
                     [risk_profile |-> "moderate"], [symbols_held |-> {"AAPL"}])
              => p_out = Rat(1, 2)

\* The report on the held symbol has been scored 0.7.
C13_HeldReport ==
    /\ PlainCall([type |-> "earnings_report", symbol |-> "AAPL"],
                 [risk_profile |-> "moderate"], [symbols_held |-> {"AAPL"}])
    /\ p_out = Rat(7, 10)

\* C14: on a news_sentiment alert a positive or a negative sentiment adds
\* 0.15, a neutral or missing one adds nothing, and a held symbol adds 0.1
\* whatever the sentiment: neutral news on a held symbol scores 0.6, negative
\* news on an unheld symbol 0.65.
C14_NewsSentiment ==
    (IsNum(p_out) /\ AlertType = "news_sentiment") =>
        LET sentiment == Get(p_in.alert, "sentiment", "neutral")
        IN  /\ p_out = ScoreWith(BaseRiskHolding,
                                 (IF sentiment \in {"positive", "negative"} THEN 15 ELSE 0)
                                 + (IF SymbolHeld THEN 10 ELSE 0))
            /\ PlainCall([type |-> "news_sentiment", sentiment |-> "neutral",
                          symbol |-> "AAPL"], EmptyDict, [symbols_held |-> {"AAPL"}])
                  => p_out = Rat(6, 10)
            /\ PlainCall([type |-> "news_sentiment", sentiment |-> "negative",
                          symbol |-> "MSFT"], EmptyDict, [symbols_held |-> {"AAPL"}])
                  => p_out = Rat(65, 100)
            /\ PlainCall([type |-> "news_sentiment"], EmptyDict, EmptyDict)
                  => p_out = Rat(1, 2)

\* Negative news on an unheld symbol has been scored 0.65.
C14_NegativeUnheld ==
    /\ PlainCall([type |-> "news_sentiment", sentiment |-> "negative", symbol |-> "MSFT"],
                 EmptyDict, [symbols_held |-> {"AAPL"}])
    /\ p_out = Rat(65, 100)

\* C15: the holding bonus of +0.05 is added exactly when the alert's symbol has
\* a holding quantity and that quantity is above 50; exactly 50, no entry or no
\* symbol earn nothing; the alert type and symbols_held play no part.
C15_HoldingBonus ==
    IsNum(p_out) =>
        LET bonus == /\ "symbol" \in DOMAIN p_in.alert
                     /\ AlertSymbol \in DOMAIN Quantities
                     /\ Quantities[AlertSymbol] > 50
        IN  /\ p_out = ScoreWith(BaseTypeRisk, IF bonus THEN 5 ELSE 0)
            /\ \A t \in AlertTypes :
                  /\ PlainCall([type |-> t, symbol |-> "AAPL"], EmptyDict,
                               [holding_quantities |-> ("AAPL" :> 51)])
                        => p_out = Rat(55, 100)
                  /\ PlainCall([type |-> t, symbol |-> "AAPL"], EmptyDict,
                               [holding_quantities |-> ("AAPL" :> 50)])
                        => p_out = Rat(1, 2)
                  /\ PlainCall([type |-> t, symbol |-> "MSFT"], EmptyDict,
                               [holding_quantities |-> ("AAPL" :> 51)])
                        => p_out = Rat(1, 2)
                  /\ PlainCall([type |-> t], EmptyDict,
                               [holding_quantities |-> ("AAPL" :> 51)])
                        => p_out = Rat(1, 2)

\* An alert of a type no branch knows, on a symbol held in quantity 51 and not
\* listed in symbols_held, has been scored 0.55.
C15_LargeHolding ==
    /\ PlainCall([type |-> "dividend", symbol |-> "AAPL"], EmptyDict,
                 [holding_quantities |-> ("AAPL" :> 51)])
    /\ p_out = Rat(55, 100)

\* C16: an alert whose type matches no branch, with empty preferences and an
\* empty portfolio context, scores exactly the base score 0.5.
C16_BaseScore ==
    (IsNum(p_out)
     /\ AlertType \notin {"price_gain", "price_drop", "news_sentiment", "earnings_report"}
     /\ p_in.user_preferences = EmptyDict /\ p_in.portfolio_context = EmptyDict)
        => p_out = Rat(1, 2)

\* The alert of unknown type with change, sentiment and symbol given has been
\* scored under empty preferences and context.
C16_UnknownType ==
    /\ IsNum(p_out)
    /\ AlertType = "dividend"
    /\ DOMAIN p_in.alert = {"type", "change", "sentiment", "symbol"}
    /\ p_in.user_preferences = EmptyDict /\ p_in.portfolio_context = EmptyDict
    /\ p_out = Rat(1, 2)

(***************************************************************************)
(* Properties of _calculate_ground_truth (SpecTruth)                       *)
(***************************************************************************)
RecognizedKinds == FeedbackKinds

KindOf(feedback) == Get(feedback, "type", "")

CountKind(feedback_list, kind) ==
    Cardinality({i \in 1..Len(feedback_list) : KindOf(feedback_list[i]) = kind})

HasRecognized(feedback_list) ==
    \E i \in 1..Len(feedback_list) : KindOf(feedback_list[i]) \in RecognizedKinds

\* Every rating event carries a rating in 1..5.
RatingsGiven(feedback_list) ==
    \A i \in 1..Len(feedback_list) :
        KindOf(feedback_list[i]) = "rating" =>
            /\ "rating" \in DOMAIN feedback_list[i]
            /\ feedback_list[i].rating \in Ratings

RECURSIVE RatingPoints(_)
RatingPoints(feedback_list) ==
    IF feedback_list = <<>> THEN 0
    ELSE (IF KindOf(Head(feedback_list)) = "rating"
          THEN Head(feedback_list).rating.n - 1 ELSE 0) + RatingPoints(Tail(feedback_list))

\* Twenty times the sum of score * weight, and twenty times the sum of weights.
TruthNumerator20(l) ==
    10 * RatingPoints(l) + 30 * CountKind(l, "mark_relevant") + 16 * CountKind(l, "click")
    + 5 * CountKind(l, "view") + 4 * CountKind(l, "dismiss")

TruthDenominator20(l) ==
    40 * CountKind(l, "rating")
    + 30 * (CountKind(l, "mark_relevant") + CountKind(l, "mark_irrelevant"))
    + 20 * CountKind(l, "click") + 10 * CountKind(l, "view") + 20 * CountKind(l, "dismiss")

\* C8: the aggregator returns None for the empty list and for a list of
\* unrecognized kinds only, never divides by zero, and returns a number for
\* every list with at least one recognized kind.
C8_NoneOrNumber ==
    g_out # Idle =>
        /\ (g_in = <<>> => g_out = NoneNum)
        /\ (~HasRecognized(g_in) => g_out = NoneNum)
        /\ g_out # Raised("ZeroDivisionError")
        /\ (HasRecognized(g_in) => IsNum(g_out))

\* The table of the specification on a list whose rating events all carry a
\* rating in 1..5: the result is sum(score * weight) / sum(weight) over the
\* recognized events, it lies in [0,1], and a lone rating of 5, 1 or 3 gives
\* exactly 1, 0 or 1/2.
TableOnRatedList(feedback_list, out) ==
    /\ out.n * TruthDenominator20(feedback_list) = TruthNumerator20(feedback_list) * out.d
    /\ RatLE(Zero, out) /\ RatLE(out, One)
    /\ \A r \in {1, 3, 5} :
          feedback_list = <<[type |-> "rating", rating |-> Rat(r, 1)]>> => out = Rat(r - 1, 4)

WeightedAverageOnRatedLists ==
    (g_out # Idle /\ HasRecognized(g_in) /\ RatingsGiven(g_in)) =>
        IsNum(g_out) /\ TableOnRatedList(g_in, g_out)

\* C9: for a feedback list with at least one recognized kind the aggregator
\* yields a ground truth, and that ground truth is sum(score * weight) /
\* sum(weight) over the recognized events with the table of the specification:
\* it lies in [0,1] for ratings in 1..5, and a lone rating of 5, 1 or 3 gives
\* exactly 1, 0 or 1/2.
C9_WeightedAverage ==
    (g_out # Idle /\ HasRecognized(g_in)) =>
        /\ IsNum(g_out)
        /\ RatingsGiven(g_in) => TableOnRatedList(g_in, g_out)

\* A list mixing a rating, a click and an unrecognized kind has been aggregated
\* to a number strictly between 0 and 1.
C9_MixedList ==
    /\ IsNum(g_out)
    /\ RatingsGiven(g_in)
    /\ CountKind(g_in, "rating") = 1 /\ CountKind(g_in, "click") = 1
    /\ CountKind(g_in, "share") = 1
    /\ RatLT(Zero, g_out) /\ RatLT(g_out, One)

(***************************************************************************)
(* Properties of calculate_alert_engagement_score (SpecStore)              *)
(***************************************************************************)
IsEngagement == Get(e_ret, "op", "") = "calculate_alert_engagement_score"

RowsOf(alert_id) == SelectSeq(feedback_rows, LAMBDA row : row.alert_id = alert_id)

CountRows(rows, kind) ==
    Cardinality({i \in 1..Len(rows) : rows[i].feedback_type = kind})

RECURSIVE RatingTotal(_)
RatingTotal(rows) ==
    IF rows = <<>> THEN 0
    ELSE (IF Head(rows).feedback_type = "rating" /\ IsNum(Head(rows).rating)
          THEN Head(rows).rating.n ELSE 0) + RatingTotal(Tail(rows))

\* A hundred times the sum of the contributions.
Engagement100(rows) ==
    10 * CountRows(rows, "view") + 30 * CountRows(rows, "click")
    + 50 * CountRows(rows, "mark_relevant") + 8 * RatingTotal(rows)
    - 20 * CountRows(rows, "mark_irrelevant") - 10 * CountRows(rows, "dismiss")

\* C6: the engagement score of any stored event list is in [0,1], and that of
\* an alert without events is exactly 0, with no error.
C6_EngagementInUnitInterval ==
    IsEngagement =>
        /\ IsNum(e_ret.result)
        /\ RatLE(Zero, e_ret.result) /\ RatLE(e_ret.result, One)
        /\ (RowsOf(e_ret.alert_id) = <<>> => e_ret.result = Zero)

\* An alert whose events sum to a negative total has been scored 0.
C6_NegativeTotalScored ==
    /\ IsEngagement
    /\ RowsOf(e_ret.alert_id) # <<>>
    /\ Engagement100(RowsOf(e_ret.alert_id)) < 0
    /\ e_ret.result = Zero

\* C7: the score of a non-empty list is clamp(S / n, 0, 1), n the number of
\* events and S the sum of the per-event contributions, clamped once after the
\* division.
C7_SumOverCountThenClamp ==
    (IsEngagement /\ RowsOf(e_ret.alert_id) # <<>>) =>
        LET rows == RowsOf(e_ret.alert_id)
            S100 == Engagement100(rows)
            n == Len(rows)
        IN  /\ IsNum(e_ret.result)
            /\ (S100 <= 0 => e_ret.result = Zero)
            /\ (S100 >= 100 * n => e_ret.result = One)
            /\ (0 < S100 /\ S100 < 100 * n =>
                    e_ret.result.n * 100 * n = S100 * e_ret.result.d)

\* A negative contribution has offset a positive one: click and mark-irrelevant
\* on one alert, scored above 0.
C7_OffsetBeforeClamp ==
    /\ IsEngagement
    /\ CountRows(RowsOf(e_ret.alert_id), "click") >= 1
    /\ CountRows(RowsOf(e_ret.alert_id), "mark_irrelevant") >= 1
    /\ Len(RowsOf(e_ret.alert_id)) >= 2
    /\ RatLT(Zero, e_ret.result)

(***************************************************************************)
(* Properties of the feedback log (SpecLog, SpecRetrain)                   *)
(***************************************************************************)
Returned(r, op) == Get(r, "op", "") = op /\ r.raised = NoneStr

StoredIds(rows) == {rows[i].id : i \in 1..Len(rows)}

\* C17: the feedback log is append-only.  Every step keeps every stored row,
\* field for field, at its place; a record_feedback that returns stores one
\* more row, gives it an id no stored row has, and returns the event it was
\* handed with that id.
C17_AppendOnly ==
    [][/\ Len(feedback_rows') >= Len(feedback_rows)
       /\ \A i \in 1..Len(feedback_rows) : feedback_rows'[i] = feedback_rows[i]
       /\ Returned(e_ret', "record_feedback") =>
             /\ Len(feedback_rows') = Len(feedback_rows) + 1
             /\ e_ret'.result = feedback_rows'[Len(feedback_rows')]
             /\ e_ret'.result.id \notin StoredIds(feedback_rows)
             /\ e_ret'.result = [e_ret'.argument EXCEPT !.id = e_ret'.result.id]]_vars

\* Two events were recorded and a query by user has then returned one of them.
C17_QueriedAfterTwoRecords ==
    /\ Returned(e_ret, "get_feedback_for_user")
    /\ Len(feedback_rows) = 2
    /\ Cardinality(StoredIds(feedback_rows)) = 2
    /\ Len(e_ret.result) = 1

\* The alerts created within the window of a training-data call.
InWindow(days_back) == {a \in 1..Len(alerts) : alerts[a].created_at >= now - days_back}

EventOf(row) ==
    [type |-> row.feedback_type, rating |-> row.rating, timestamp |-> row.timestamp]

EventsOfAlert(alert_id) == {r \in 1..Len(feedback_rows) : feedback_rows[r].alert_id = alert_id}

\* C18: the training data hold one record per alert created within the
\* window and none twice; a record carries its alert's columns and all and
\* only the events of that alert, in ascending timestamp order (an alert
\* without events has an empty list); events of other alerts are in no record.
C18_OneRecordPerAlertInWindow ==
    Returned(e_ret, "get_relevance_training_data") =>
        LET training_data == e_ret.result
            window == InWindow(e_ret.days_back)
        IN  /\ Len(training_data) = Cardinality(window)
            /\ {training_data[i].alert_id : i \in 1..Len(training_data)}
                   = {alerts[a].id : a \in window}
            /\ \A i \in 1..Len(training_data) :
                  LET record == training_data[i]
                      alert == alerts[record.alert_id]
                      own == EventsOfAlert(record.alert_id)
                      listed == 1..Len(record.feedback)
                  IN  /\ record.alert_type = alert.alert_type
                      /\ record.symbol = alert.symbol
                      /\ record.message = alert.message
                      /\ record.predicted_relevance = alert.relevance_score
                      /\ Len(record.feedback) = Cardinality(own)
                      /\ \A j \in listed :
                            Cardinality({k \in listed : record.feedback[k] = record.feedback[j]})
                            = Cardinality({r \in own :
                                              EventOf(feedback_rows[r]) = record.feedback[j]})
                      /\ \A j \in listed :
                            j < Len(record.feedback) =>
                               record.feedback[j].timestamp <= record.feedback[j + 1].timestamp

\* Two alerts in the window: the first with two events recorded latest first
\* and listed earliest first, the second without events.
C18_ReorderedAndEmpty ==
    /\ Returned(e_ret, "get_relevance_training_data")
    /\ Len(e_ret.result) = 2
    /\ Len(feedback_rows) = 2
    /\ feedback_rows[1].timestamp > feedback_rows[2].timestamp
    /\ Len(e_ret.result[1].feedback) = 2
    /\ e_ret.result[1].feedback[1] = EventOf(feedback_rows[2])
    /\ e_ret.result[2].feedback = <<>>

\* C19: a tracking call never raises, whether the event is rejected at
\* construction or the store fails; a call that printed an exception leaves
\* the feedback log and the alert table as they were, and a call the store
\* serves appends its event, also right after a call that failed.
C19_TrackingNeverRaises ==
    [][IsTrack(e_ret') =>
          /\ e_ret'.raised = NoneStr
          /\ e_ret'.result = NoneNum
          /\ alerts' = alerts
          /\ e_ret'.printed # NoneStr => feedback_rows' = feedback_rows
          /\ e_ret'.printed = NoneStr =>
                /\ Len(feedback_rows') = Len(feedback_rows) + 1
                /\ SubSeq(feedback_rows', 1, Len(feedback_rows)) = feedback_rows
                /\ LET row == feedback_rows'[Len(feedback_rows')]
                   IN  /\ row.alert_id = e_ret'.alert_id
                       /\ row.feedback_type = e_ret'.kind]_vars

\* A tracking call has stored its event right after one that hit a failing
\* store.
C19_TrackedAfterFailure ==
    /\ IsTrack(e_ret)
    /\ e_ret.after_failure
    /\ e_ret.printed = NoneStr
    /\ feedback_rows # <<>>
    /\ feedback_rows[Len(feedback_rows)].feedback_type = e_ret.kind

\* C20: a storage failure during a bulk read reaches the caller as a failure
\* and never as an empty result: the training-data fetch of the AlertService
\* raises when the store fails underneath, and a retrain driven by a failed
\* fetch does not report "no_data".
C20_BulkReadFailurePropagates ==
    /\ (Get(e_ret, "op", "") = "AlertService.get_relevance_training_data" /\ e_ret.failed)
          => e_ret.raised # NoneStr
    /\ (Get(e_ret, "op", "") = "train_model_with_feedback" /\ e_ret.failed)
          => StatusOf(ret) # "no_data"
    /\ (Get(e_ret, "op", "") = "get_relevance_training_data" /\ e_ret.raised = NoneStr)
          => e_ret.result \in get_relevance_training_data(alerts, feedback_rows,
                                                          now - e_ret.days_back)

(***************************************************************************)
(* Properties of the recording entry points (SpecRecord)                   *)
(***************************************************************************)
IsEntry(r) == Get(r, "entry", FALSE)

\* The five conditions under which a Feedback Event is malformed.
Malformed(feedback) ==
    \/ feedback.alert_id = 0
    \/ feedback.user_id \in {"", NoneStr}
    \/ feedback.feedback_type \notin FeedbackKinds
    \/ IsNum(feedback.rating) /\ feedback.rating \notin {Rat(r, 1) : r \in 1..5}
    \/ /\ IsNum(feedback.relevance_score)
       /\ (feedback.relevance_score.n < 0
           \/ feedback.relevance_score.n > feedback.relevance_score.d)

\* C21: a call of a recording entry point with a malformed event (no alert id,
\* no user id, no kind, rating outside 1..5, relevance score outside [0,1])
\* is rejected, by an exception or, through the AlertService, a printed one,
\* and leaves the store as it was; a call with a well-formed event stores
\* exactly that event; so every stored event is well-formed.
C21_MalformedNeverStored ==
    [][/\ IsEntry(e_ret') =>
            IF Malformed(e_ret'.argument)
            THEN /\ feedback_rows' = feedback_rows
                 /\ "ValueError" \in {e_ret'.raised, e_ret'.printed}
            ELSE /\ Len(feedback_rows') = Len(feedback_rows) + 1
                 /\ SubSeq(feedback_rows', 1, Len(feedback_rows)) = feedback_rows
                 /\ feedback_rows'[Len(feedback_rows')] =
                        [e_ret'.argument EXCEPT !.id = Len(feedback_rows')]
                 /\ e_ret'.raised = NoneStr /\ e_ret'.printed = NoneStr
       /\ \A i \in 1..Len(feedback_rows') : ~Malformed(feedback_rows'[i])]_vars

\* A rating of 6 was rejected while a rated event and a scored view are stored.
C21_RejectedBesideStored ==
    /\ IsEntry(e_ret)
    /\ e_ret.argument.rating = Rat(6, 1)
    /\ Len(feedback_rows) = 2
    /\ \E i \in 1..2 : feedback_rows[i].rating = Rat(5, 1)
    /\ \E i \in 1..2 : feedback_rows[i].relevance_score = One

(***************************************************************************)
(* Properties of alert persistence (SpecAlert)                             *)
(***************************************************************************)
MandatoryGiven(alert) ==
    /\ alert.user_id \notin {"", NoneStr}
    /\ alert.portfolio_id \notin {"", NoneStr}
    /\ alert.alert_type \notin {"", NoneStr}
    /\ alert.message # <<>>

ScoreAbsentOrInUnitInterval(alert) ==
    IsNum(alert.relevance_score) =>
        (0 <= alert.relevance_score.n /\ alert.relevance_score.n <= alert.relevance_score.d)

\* The mandatory fields of every persisted alert are given.
MandatoryFieldsPersisted == \A i \in 1..Len(alerts) : MandatoryGiven(alerts[i])

\* C22: every alert that create_alert or update_alert persists has a
\* non-empty user id, portfolio id, category and message, and a relevance
\* score that is absent or within [0,1].
C22_PersistedAlertsWellFormed ==
    \A i \in 1..Len(alerts) :
        MandatoryGiven(alerts[i]) /\ ScoreAbsentOrInUnitInterval(alerts[i])

(***************************************************************************)
(* Properties of feature extraction (SpecFeatures)                         *)
(***************************************************************************)
IsExtraction == Get(e_ret, "op", "") = "_extract_features"

\* The stored alert a training record was built from.
StoredAlertOf(alert_data) == alerts[alert_data.alert_id]

SymbolAndLengthExtracted(alert_data, features) ==
    /\ features.has_symbol = 1 <=> StoredAlertOf(alert_data).symbol \notin {NoneStr, ""}
    /\ features.message_length = Len(StoredAlertOf(alert_data).message)

\* has_symbol and message_length of every training record, and the predicted
\* relevance of every record whose alert was stored with a relevance score.
FeaturesOfScoredRecords ==
    IsExtraction =>
        /\ SymbolAndLengthExtracted(e_ret.alert_data, e_ret.result)
        /\ IsNum(StoredAlertOf(e_ret.alert_data).relevance_score) =>
              e_ret.result.predicted_relevance =
                  StoredAlertOf(e_ret.alert_data).relevance_score
        /\ ModelIdle

\* C23: for every training record the store returns, the extracted
\* predicted_relevance is the alert's stored relevance score, or 0.5 when the
\* alert was stored without one; has_symbol is 1 exactly when the stored
\* symbol is present and non-empty; message_length is the length of the
\* stored message; and the model state is as it was.
C23_FeaturesOfTrainingRecord ==
    IsExtraction =>
        /\ SymbolAndLengthExtracted(e_ret.alert_data, e_ret.result)
        /\ e_ret.result.predicted_relevance =
              IF IsNum(StoredAlertOf(e_ret.alert_data).relevance_score)
              THEN StoredAlertOf(e_ret.alert_data).relevance_score
              ELSE Rat(1, 2)
        /\ ModelIdle

(***************************************************************************)
(* Properties of the monitoring pass (SpecMonitor)                         *)
(***************************************************************************)
IsMonitoringPass == Get(e_ret, "op", "") = "monitor_price_changes"

\* Percent change of a holding in the pass just made, times its purchase
\* price, and the threshold on the same scale.
ChangeTimesPurchase(holding) ==
    RatMul(RatSub(e_ret.prices[holding.symbol], holding.purchase_price), Rat(100, 1))

ThresholdTimesPurchase(holding) == RatMul(e_ret.threshold, holding.purchase_price)

ActiveAlerts(alert_type, symbol) ==
    {i \in 1..Len(alerts) : /\ alerts[i].user_id = e_ret.user_id
                             /\ alerts[i].alert_type = alert_type
                             /\ alerts[i].symbol = symbol
                             /\ alerts[i].is_active}

\* C24: a monitoring pass over a holding whose current price lies at least
\* threshold percent above (below) its purchase price completes without error
\* and leaves exactly one active price_gain (price_drop) alert for that user
\* and symbol; a holding whose price is unavailable or whose change is below
\* the threshold has no alert.
C24_PassLeavesOneAlert ==
    IsMonitoringPass =>
        \A i \in 1..Len(e_ret.holdings) :
            LET holding == e_ret.holdings[i]
                price == e_ret.prices[holding.symbol]
            IN  IF price = NoneNum
                THEN /\ ActiveAlerts("price_gain", holding.symbol) = {}
                     /\ ActiveAlerts("price_drop", holding.symbol) = {}
                ELSE IF RatLE(ThresholdTimesPurchase(holding), ChangeTimesPurchase(holding))
                THEN /\ e_ret.raised = NoneStr
                     /\ Cardinality(ActiveAlerts("price_gain", holding.symbol)) = 1
                ELSE IF RatLE(ChangeTimesPurchase(holding),
                              RatSub(Zero, ThresholdTimesPurchase(holding)))
                THEN /\ e_ret.raised = NoneStr
                     /\ Cardinality(ActiveAlerts("price_drop", holding.symbol)) = 1
                ELSE /\ ActiveAlerts("price_gain", holding.symbol) = {}
                     /\ ActiveAlerts("price_drop", holding.symbol) = {}

(***************************************************************************)
(* Properties of the user configuration store (SpecConfig)                 *)
(***************************************************************************)
IsSave == Get(e_ret, "op", "") = "save_user_config"

IsGet == Get(e_ret, "op", "") = "get_user_config"

\* The configuration a save stores: the mapping given, with risk_profile
\* "moderate" when it had none.
SavedConfig(config) ==
    [key \in DOMAIN config \cup {"risk_profile"} |->
        IF key \in DOMAIN config THEN config[key] ELSE "moderate"]

RowsOfKey(user_id, portfolio_id) ==
    {i \in 1..Len(user_configs) : /\ user_configs[i].user_id = user_id
                                   /\ user_configs[i].portfolio_id = portfolio_id}

\* Right after a save, every result get_user_config can deliver for the key
\* saved to is the configuration just saved.
GetAfterSave(portfolio_ids) ==
    (IsSave /\ e_ret.portfolio_id \in portfolio_ids) =>
        get_user_config(user_configs, e_ret.user_id, e_ret.portfolio_id)
            = {SavedConfig(e_ret.config)}

\* The round trip for the keys with a portfolio id.
PortfolioKeyRoundTrip ==
    /\ GetAfterSave(PortfolioIds \ {NoneStr})
    /\ \A user_id \in ConfigUsers, portfolio_id \in PortfolioIds \ {NoneStr} :
          Cardinality(RowsOfKey(user_id, portfolio_id)) <= 1
    /\ (IsGet /\ RowsOfKey(e_ret.user_id, e_ret.portfolio_id) = {}) =>
          e_ret.result = EmptyDict

\* C25: get_user_config after save_user_config for the same (user id,
\* portfolio id) key, the global key with portfolio id None included, returns
\* the configuration most recently saved for it, with risk_profile "moderate"
\* when the saved mapping lacked it; at most one row is stored per key; and
\* a key never saved yields the empty mapping.
C25_GetReturnsLastSaved ==
    /\ GetAfterSave(PortfolioIds)
    /\ \A user_id \in ConfigUsers, portfolio_id \in PortfolioIds :
          Cardinality(RowsOfKey(user_id, portfolio_id)) <= 1
    /\ (IsGet /\ RowsOfKey(e_ret.user_id, e_ret.portfolio_id) = {}) =>
          e_ret.result = EmptyDict

(***************************************************************************)
(* Properties of held results (SpecSnapshot)                               *)
(***************************************************************************)
PerformanceKeys == {"accuracy", "precision", "recall", "f1_score", "last_updated"}

\* The held result shows, under each performance key, what it showed when
\* it was returned.
ShowsAsReturned(result) ==
    \A key \in PerformanceKeys : Shown(result.performance)[key] = result.at_return[key]

\* Mappings obtained from get_model_performance are unaffected by later
\* training.
CopiesAreSnapshots ==
    \A i \in 1..Len(held_results) :
        held_results[i].op = "get_model_performance" => ShowsAsReturned(held_results[i])

\* C26: the performance mapping in the result of a train_with_feedback call
\* shows the same accuracy, precision, recall, f1_score and last_updated after
\* any later train_with_feedback call as when it was returned, as a mapping
\* obtained from get_model_performance does.
C26_ResultsAreSnapshots ==
    \A i \in 1..Len(held_results) : ShowsAsReturned(held_results[i])

(***************************************************************************)
(* Properties of training on the store (SpecLearn)                         *)
(***************************************************************************)
TrainingStatuses == {"no_data", "no_valid_data", "success"}

\* The events of the training data just trained on.
TrainedEvents ==
    UNION {{ret.training_data[i].feedback[j] :
                j \in 1..Len(ret.training_data[i].feedback)} :
              i \in 1..Len(ret.training_data)}

\* Training on a log whose rating events all carry a rating ends with one of
\* the three statuses.
RatedLogsTrain ==
    (IsCall(ret, "train_with_feedback")
     /\ \A event \in TrainedEvents : event.type = "rating" => IsNum(event.rating))
        => ~HasRaised(ret) /\ StatusOf(ret) \in TrainingStatuses

\* C27: train_with_feedback on the training data of any log the recording
\* operations can produce, a rating event without a rating value included,
\* returns one of the three statuses and raises nothing.
C27_TrainingOnStoreNeverRaises ==
    IsCall(ret, "train_with_feedback") =>
        ~HasRaised(ret) /\ StatusOf(ret) \in TrainingStatuses

(***************************************************************************)
(* Properties of the performance recomputation (Spec)                      *)
(***************************************************************************)
\* The prediction the alert type alone determines.
PredictionOfType(alert_type) ==
    IF alert_type \in {"price_gain", "price_drop"} THEN Rat(2, 5) ELSE Rat(1, 2)

\* Feature sets that agree with the given one in the alert type only.
SameTypeFeatures(feature) ==
    {[alert_type |-> feature.alert_type, symbol |-> symbol, has_symbol |-> flag,
      message_length |-> 1 - flag, predicted_relevance |-> predicted_relevance,
      contains_percent |-> flag, contains_price |-> 1 - flag,
      contains_earnings |-> flag, contains_news |-> 1 - flag, contains_alert |-> flag] :
        symbol \in {"AAPL", "MSFT", "", NoneStr}, flag \in {0, 1},
        predicted_relevance \in {NoneNum, Zero, One}}

TypeWithinCount(pairs) ==
    Cardinality({i \in 1..Len(pairs) :
        RatLE(RatAbs(RatSub(PredictionOfType(pairs[i][1].alert_type), pairs[i][2])),
              Rat(1, 5))})

ReturnedCalls ==
    UNION {{<<w, i>> : i \in 1..Len(workers[w].recorded)} : w \in Writers}

ReturnedEvent(call) == workers[call[1]].recorded[call[2]]

\* The stored rows are the events of the calls that returned, each once: a
\* call that raised has stored nothing and no row belongs to two calls.
StoredExactlyOnce ==
    /\ Cardinality(ReturnedCalls) = Len(feedback_rows)
    /\ \A call \in ReturnedCalls :
          \E j \in 1..Len(feedback_rows) : feedback_rows[j] = ReturnedEvent(call)
    /\ \A c1, c2 \in ReturnedCalls : c1 # c2 => ReturnedEvent(c1).id # ReturnedEvent(c2).id
    /\ \A w \in Writers :
          workers[w].pc = "idle" /\ workers[w].call = "record_feedback"
              /\ ~HasRaised(workers[w].result)
          => /\ [workers[w].result EXCEPT !.id = 0] = workers[w].argument
             /\ workers[w].result = workers[w].recorded[Len(workers[w].recorded)]

DistinctIdentities ==
    \A i, j \in 1..Len(feedback_rows) : i # j => feedback_rows[i].id # feedback_rows[j].id

\* The moments of the log: what had been committed after each commit so far.
Moments == {<<a, k>> : a \in 0..Len(alerts), k \in 0..Len(feedback_rows)}

\* The result a reader has returned is the aggregate of one moment.
AggregatesOneMoment(w) ==
    workers[w].pc = "idle" =>
        IF workers[w].call = "get_relevance_training_data"
        THEN \E m \in Moments :
                workers[w].result \in
                    get_relevance_training_data(SubSeq(alerts, 1, m[1]),
                                                SubSeq(feedback_rows, 1, m[2]),
                                                now - workers[w].argument)
        ELSE IF workers[w].call = "calculate_alert_engagement_score"
        THEN \E m \in Moments :
                workers[w].result =
                    calculate_alert_engagement_score(SubSeq(feedback_rows, 1, m[2]),
                                                     workers[w].argument)
        ELSE TRUE

Successful(outcome) == IsResponse(outcome) /\ outcome.status_code < 400

\* HTTP 429, a connection error or a timeout.
Retryable(outcome) ==
    IF IsResponse(outcome) THEN outcome.status_code = 429
    ELSE \/ IsInstance(outcome.exception, "ConnectionError")
         \/ IsInstance(outcome.exception, "Timeout")

\* The exception an attempt that failed puts in the hands of the caller when
\* it is raised again.
ErrorOf(outcome) ==
    IF IsResponse(outcome) THEN [exception |-> "HTTPError", response |-> outcome]
    ELSE outcome

AllRetryable(attempts) == \A k \in 1..Len(attempts) : Retryable(attempts[k])

AttemptsBounded ==
    /\ Len(api.attempts) <= IntMax(api.max_retries, 0)
    /\ api.i <= IntMax(api.max_retries, 0)

\* An attempt is followed by another one only when it failed with a
\* retryable error, and then after a sleep of backoff_factor * 2^i.
RetriesOnlyAfterRetryable ==
    LET n == Len(api.attempts)
    IN  /\ \A k \in 1..(n - 1) : Retryable(api.attempts[k])
        /\ n - 1 <= Len(api.slept) /\ Len(api.slept) <= n
        /\ \A k \in 1..Len(api.slept) :
              api.slept[k] = Backoff(api.backoff_factor, k - 1)

FirstSuccessReturned ==
    LET n == Len(api.attempts)
    IN  /\ api.pc = "returned" =>
              n >= 1 /\ Successful(api.attempts[n]) /\ api.result = api.attempts[n]
        /\ n >= 1 /\ Successful(api.attempts[n]) => api.pc = "returned"

OtherErrorsRaisedAtOnce ==
    LET n == Len(api.attempts)
    IN  n >= 1 /\ ~Successful(api.attempts[n]) /\ ~Retryable(api.attempts[n])
        => api.pc = "raised" /\ api.result = ErrorOf(api.attempts[n])

FailureWhenAllAttemptsFail ==
    LET n == Len(api.attempts)
    IN  /\ ~ApiRunning /\ n = IntMax(api.max_retries, 0) /\ AllRetryable(api.attempts)
           => api.pc = "raised"
        /\ api.pc = "raised" =>
              \/ /\ api.result = [exception |-> "Exception"]
                 /\ n = IntMax(api.max_retries, 0) /\ AllRetryable(api.attempts)
              \/ /\ api.result = [exception |-> "ValueError"]
                 /\ n >= 1 /\ Retryable(api.attempts[n])
                 /\ RatLT(api.backoff_factor, Zero)
              \/ /\ n >= 1 /\ ~Successful(api.attempts[n]) /\ ~Retryable(api.attempts[n])
                 /\ api.result = ErrorOf(api.attempts[n])

RetryDiscipline ==
    api # Idle =>
        /\ AttemptsBounded
        /\ RetriesOnlyAfterRetryable
        /\ FirstSuccessReturned
        /\ OtherErrorsRaisedAtOnce
        /\ FailureWhenAllAttemptsFail

====
